---- MODULE Spec2Model ----
(***************************************************************************)
(* Sequential-modular initialization of the rSOFC SOEC-mode flowsheet      *)
(* (rsofc_soec_mode_flowsheet_v6.py).  get_model is a straight-line        *)
(* script; the model keeps its text as a sequence of statements            *)
(* (get_model_body) and interprets one statement per step.                 *)
(*                                                                         *)
(* Units of the stored numbers: port flow_mol in mmol/s, the per-cell SOEC *)
(* channel flow_mol in umol/s, temperature in 0.01 K, pressure in Pa, mole *)
(* fractions in 1e-6 (so a fraction 1.0 is 1000000), enth_mol in J/mol.    *)
(***************************************************************************)
EXTENDS Integers, Sequences, FiniteSets, TLC

VARIABLES
    pc,         \* index of the next statement of get_model_body
    status,     \* "running" | "failed" (an exception left get_model) | "done"
    units,      \* unit blocks that exist on m.fs
    arcs,       \* declared Arc components
    expanded,   \* arcs that have an <arc>_expanded constraint block
    active,     \* expanded arc blocks that are active
    scaledArcs, \* arcs whose expanded constraints scale_arc_constraints scaled
    fixed,      \* variables whose .fixed flag is set
    val,        \* value of every stream-state variable (Unset before any write)
    inited,     \* units whose initialize() returned, in call order
    propagated, \* arcs handed to propagate_state, in call order
    copies,     \* copy_port_values calls, in call order
    solver,     \* option dictionary installed by get_solver (empty before)
    solves,     \* solver.solve calls: options in force, status returned
    raised,     \* exceptions raised by a unit's initialize(), in order
    runs        \* get_model calls made on this model instance
vars == <<pc, status, units, arcs, expanded, active, scaledArcs, fixed, val,
          inited, propagated, copies, solver, solves, raised, runs>>

-----------------------------------------------------------------------------
(* Property packages: the state variables a port of each package carries.  *)

AirComps == {"O2", "H2O", "CO2", "N2", "Ar"}

FuelComps == {"CH4", "C2H6", "C3H8", "C4H10", "O2", "H2O", "CO2", "N2", "Ar"}

H2Comps == {"H2", "H2O"}

H2CompressComps == {"H2"}

VLEComps == {"CO2", "H2O"}

PkgComps(pkg) ==
    CASE pkg = "air_prop" -> AirComps
      [] pkg = "fg_prop" -> FuelComps
      [] pkg = "h2_prop" -> H2Comps
      [] pkg = "h2_compress_prop" -> H2CompressComps
      [] pkg = "CO2_H2O_VLE" -> VLEComps
      [] pkg = "water_prop" -> {}

PkgFields(pkg) ==
    IF pkg = "water_prop"
    THEN {"flow_mol", "enth_mol", "pressure"}
    ELSE {"flow_mol", "temperature", "pressure"} \cup PkgComps(pkg)

-----------------------------------------------------------------------------
(* Unit models and their ports.  A port is <<unit, name>>; an outlet port  *)
(* records the inlet its local estimate is taken from.                     *)

In(pkg) == [dir |-> "in", pkg |-> pkg, from |-> ""]

Out(pkg, from) == [dir |-> "out", pkg |-> pkg, from |-> from]

\* Heater, PressureChanger, Compressor, StoichiometricReactor
Flow1(pkg) == [inlet |-> In(pkg), outlet |-> Out(pkg, "inlet")]

HeatExchanger(shell, tube) ==
    [shell_inlet |-> In(shell), shell_outlet |-> Out(shell, "shell_inlet"),
     tube_inlet |-> In(tube), tube_outlet |-> Out(tube, "tube_inlet")]

Translator(pin, pout) == [inlet |-> In(pin), outlet |-> Out(pout, "inlet")]

Separator(pkg, outs) ==
    [p \in outs \cup {"inlet"} |->
        IF p = "inlet" THEN In(pkg) ELSE Out(pkg, "inlet")]

Mixer(pkg, ins, first) ==
    [p \in ins \cup {"outlet"} |->
        IF p = "outlet" THEN Out(pkg, first) ELSE In(pkg)]

IsothermalSofc ==
    [inlet_fc_mult |-> In("h2_prop"),
     outlet_fc_mult |-> Out("h2_prop", "inlet_fc_mult"),
     inlet_ac_mult |-> In("air_prop"),
     outlet_ac_mult |-> Out("air_prop", "inlet_ac_mult")]

UnitTable ==
    [air_compressor_s1 |-> [fn |-> "add_asu", ports |-> Flow1("air_prop")],
     intercooler_s1 |-> [fn |-> "add_asu", ports |-> Flow1("air_prop")],
     air_compressor_s2 |-> [fn |-> "add_asu", ports |-> Flow1("air_prop")],
     intercooler_s2 |-> [fn |-> "add_asu", ports |-> Flow1("air_prop")],
     ASU |-> [fn |-> "add_asu",
              ports |-> Separator("air_prop", {"N2_outlet", "O2_outlet"})],
     oxygen_preheater |-> [fn |-> "add_preheater",
              ports |-> HeatExchanger("air_prop", "air_prop")],
     ng_preheater |-> [fn |-> "add_preheater",
              ports |-> HeatExchanger("air_prop", "fg_prop")],
     preheat_split |-> [fn |-> "add_preheater",
              ports |-> Separator("air_prop", {"air", "ng"})],
     pre_oxycombustor_translator |-> [fn |-> "add_combustor",
              ports |-> Translator("air_prop", "fg_prop")],
     cmb_mix |-> [fn |-> "add_combustor",
              ports |-> Mixer("fg_prop", {"ng", "air"}, "ng")],
     cmb |-> [fn |-> "add_combustor", ports |-> Flow1("fg_prop")],
     post_oxycombustor_translator |-> [fn |-> "add_combustor",
              ports |-> Translator("fg_prop", "air_prop")],
     bhx2 |-> [fn |-> "add_aux_boiler_steam", ports |-> Flow1("water_prop")],
     main_steam_split |-> [fn |-> "add_aux_boiler_steam",
              ports |-> Separator("water_prop", {"h_side", "o_side"})],
     aux_boiler_feed_pump |-> [fn |-> "add_aux_boiler_steam",
              ports |-> Flow1("water_prop")],
     bhx1 |-> [fn |-> "add_aux_boiler_steam",
              ports |-> HeatExchanger("h2_prop", "water_prop")],
     air_blower |-> [fn |-> "add_soec_air_side_units",
              ports |-> Flow1("air_prop")],
     air_preheater_1 |-> [fn |-> "add_soec_air_side_units",
              ports |-> HeatExchanger("air_prop", "air_prop")],
     air_preheater_2 |-> [fn |-> "add_soec_air_side_units",
              ports |-> HeatExchanger("air_prop", "air_prop")],
     soec |-> [fn |-> "add_soec_unit", ports |-> IsothermalSofc],
     spltf1 |-> [fn |-> "add_soec_unit",
              ports |-> Separator("h2_prop", {"out", "recycle"})],
     splta1 |-> [fn |-> "add_soec_unit",
              ports |-> Separator("air_prop", {"out", "recycle"})],
     mxf1 |-> [fn |-> "add_soec_inlet_mix",
              ports |-> Mixer("h2_prop", {"water", "recycle"}, "water")],
     mxa1 |-> [fn |-> "add_soec_inlet_mix",
              ports |-> Mixer("air_prop", {"air", "recycle"}, "air")],
     hcmp_ic01 |-> [fn |-> "add_h2_compressor",
              ports |-> Flow1("h2_compress_prop")],
     hcmp01 |-> [fn |-> "add_h2_compressor",
              ports |-> Flow1("h2_compress_prop")],
     hcmp_ic02 |-> [fn |-> "add_h2_compressor",
              ports |-> Flow1("h2_compress_prop")],
     hcmp02 |-> [fn |-> "add_h2_compressor",
              ports |-> Flow1("h2_compress_prop")],
     hcmp_ic03 |-> [fn |-> "add_h2_compressor",
              ports |-> Flow1("h2_compress_prop")],
     hcmp03 |-> [fn |-> "add_h2_compressor",
              ports |-> Flow1("h2_compress_prop")],
     hcmp_ic04 |-> [fn |-> "add_h2_compressor",
              ports |-> Flow1("h2_compress_prop")],
     hcmp04 |-> [fn |-> "add_h2_compressor",
              ports |-> Flow1("h2_compress_prop")],
     soec_air_HRSG_1 |-> [fn |-> "add_hrsg_and_cpu",
              ports |-> Flow1("air_prop")],
     soec_air_HRSG_2 |-> [fn |-> "add_hrsg_and_cpu",
              ports |-> Flow1("air_prop")],
     fluegas_HRSG |-> [fn |-> "add_hrsg_and_cpu", ports |-> Flow1("air_prop")],
     CPU_translator |-> [fn |-> "add_hrsg_and_cpu",
              ports |-> Translator("air_prop", "CO2_H2O_VLE")],
     condenser |-> [fn |-> "add_hrsg_and_cpu",
              ports |-> Flow1("CO2_H2O_VLE")],
     flash |-> [fn |-> "add_hrsg_and_cpu",
              ports |-> Separator("CO2_H2O_VLE", {"vap_outlet", "liq_outlet"})],
     CPU |-> [fn |-> "add_hrsg_and_cpu",
              ports |-> [inlet |-> In("CO2_H2O_VLE")]]]

AllUnits == DOMAIN UnitTable

UnitsOf(fn) == {u \in AllUnits : UnitTable[u].fn = fn}

PortsOf(u) == {<<u, p>> : p \in DOMAIN UnitTable[u].ports}

AllPorts == UNION {PortsOf(u) : u \in AllUnits}

PortInfo(port) == UnitTable[port[1]].ports[port[2]]

Inlets(u) == {port \in PortsOf(u) : PortInfo(port).dir = "in"}

Outlets(u) == {port \in PortsOf(u) : PortInfo(port).dir = "out"}

\* A variable is <<unit, member, field>>; the variables of a port:
PortVars(port) == {<<port[1], port[2], f>> : f \in PkgFields(PortInfo(port).pkg)}

StateVars == UNION {PortVars(port) : port \in AllPorts}

\* The value a state variable holds before anything wrote it.
Unset == 0 - 1

-----------------------------------------------------------------------------
(* The Arc declarations, with the builder that declares each.              *)

\* an Arc declared with source and destination exchanged
A_reversed(src, dst, fn) == [src |-> dst, dst |-> src, fn |-> fn]

A(src, dst, fn) == [src |-> src, dst |-> dst, fn |-> fn]

ArcTable ==
    [STAGE_1_OUT |-> A(<<"air_compressor_s1", "outlet">>,
                       <<"intercooler_s1", "inlet">>, "add_asu"),
     IC_1_OUT |-> A(<<"intercooler_s1", "outlet">>,
                    <<"air_compressor_s2", "inlet">>, "add_asu"),
     STAGE_2_OUT |-> A(<<"air_compressor_s2", "outlet">>,
                       <<"intercooler_s2", "inlet">>, "add_asu"),
     ba01 |-> A(<<"intercooler_s2", "outlet">>, <<"ASU", "inlet">>, "add_asu"),
     o04 |-> A(<<"preheat_split", "ng">>,
               <<"ng_preheater", "shell_inlet">>, "add_preheater"),
     o05 |-> A(<<"preheat_split", "air">>,
               <<"oxygen_preheater", "shell_inlet">>, "add_preheater"),
     ba02 |-> A(<<"ASU", "O2_outlet">>,
                <<"oxygen_preheater", "tube_inlet">>, "add_preheater"),
     cmb_mix_in |-> A(<<"oxygen_preheater", "tube_outlet">>,
                      <<"pre_oxycombustor_translator", "inlet">>,
                      "add_combustor"),
     ba03 |-> A(<<"pre_oxycombustor_translator", "outlet">>,
                <<"cmb_mix", "air">>, "add_combustor"),
     bng01 |-> A(<<"ng_preheater", "tube_outlet">>,
                 <<"cmb_mix", "ng">>, "add_combustor"),
     bng02 |-> A(<<"cmb_mix", "outlet">>, <<"cmb", "inlet">>, "add_combustor"),
     cmb_out |-> A(<<"cmb", "outlet">>,
                   <<"post_oxycombustor_translator", "inlet">>,
                   "add_combustor"),
     fg01 |-> A(<<"post_oxycombustor_translator", "outlet">>,
                <<"air_preheater_2", "shell_inlet">>, "add_combustor"),
     s01 |-> A(<<"aux_boiler_feed_pump", "outlet">>,
               <<"bhx1", "tube_inlet">>, "add_aux_boiler_steam"),
     s02 |-> A(<<"bhx1", "tube_outlet">>,
               <<"bhx2", "inlet">>, "add_aux_boiler_steam"),
     s03 |-> A(<<"bhx2", "outlet">>,
               <<"main_steam_split", "inlet">>, "add_aux_boiler_steam"),
     a01 |-> A(<<"air_blower", "outlet">>,
               <<"air_preheater_1", "tube_inlet">>, "add_soec_air_side_units"),
     a02 |-> A(<<"air_preheater_1", "tube_outlet">>,
               <<"air_preheater_2", "tube_inlet">>, "add_soec_air_side_units"),
     h01 |-> A(<<"soec", "outlet_fc_mult">>,
               <<"spltf1", "inlet">>, "add_soec_unit"),
     o01 |-> A(<<"soec", "outlet_ac_mult">>,
               <<"splta1", "inlet">>, "add_soec_unit"),
     s10 |-> A(<<"main_steam_split", "h_side_adapt">>,
               <<"mxf1", "water">>, "add_soec_inlet_mix"),
     hr01 |-> A(<<"spltf1", "recycle">>,
                <<"mxf1", "recycle">>, "add_soec_inlet_mix"),
     s12 |-> A(<<"mxf1", "outlet">>,
               <<"soec", "inlet_fc_mult">>, "add_soec_inlet_mix"),
     s13 |-> A(<<"mxa1", "outlet">>,
               <<"soec", "inlet_ac_mult">>, "add_soec_inlet_mix"),
     a03 |-> A(<<"air_preheater_2", "tube_outlet">>,
               <<"mxa1", "air">>, "add_soec_inlet_mix"),
     h03 |-> A(<<"bhx1", "shell_outlet_drop_water">>,
               <<"hcmp_ic01", "inlet">>, "add_h2_compressor"),
     h04 |-> A(<<"hcmp_ic01", "outlet">>,
               <<"hcmp01", "inlet">>, "add_h2_compressor"),
     h05 |-> A(<<"hcmp01", "outlet">>,
               <<"hcmp_ic02", "inlet">>, "add_h2_compressor"),
     h06 |-> A(<<"hcmp_ic02", "outlet">>,
               <<"hcmp02", "inlet">>, "add_h2_compressor"),
     h07 |-> A(<<"hcmp02", "outlet">>,
               <<"hcmp_ic03", "inlet">>, "add_h2_compressor"),
     h08 |-> A(<<"hcmp_ic03", "outlet">>,
               <<"hcmp03", "inlet">>, "add_h2_compressor"),
     h09 |-> A(<<"hcmp03", "outlet">>,
               <<"hcmp_ic04", "inlet">>, "add_h2_compressor"),
     h10 |-> A(<<"hcmp_ic04", "outlet">>,
               <<"hcmp04", "inlet">>, "add_h2_compressor"),
     a06 |-> A(<<"oxygen_preheater", "shell_outlet">>,
               <<"soec_air_HRSG_1", "inlet">>, "add_hrsg_and_cpu"),
     a07 |-> A(<<"ng_preheater", "shell_outlet">>,
               <<"soec_air_HRSG_2", "inlet">>, "add_hrsg_and_cpu"),
     fg02 |-> A(<<"air_preheater_2", "shell_outlet">>,
                <<"fluegas_HRSG", "inlet">>, "add_hrsg_and_cpu"),
     fg03 |-> A(<<"fluegas_HRSG", "outlet">>,
                <<"CPU_translator", "inlet">>, "add_hrsg_and_cpu"),
     fg04 |-> A(<<"CPU_translator", "outlet">>,
                <<"condenser", "inlet">>, "add_hrsg_and_cpu"),
     fg05 |-> A(<<"condenser", "outlet">>,
                <<"flash", "inlet">>, "add_hrsg_and_cpu"),
     h02 |-> A(<<"spltf1", "out">>,
               <<"bhx1", "shell_inlet">>, "add_more_hx_connections"),
     o02 |-> A(<<"splta1", "out">>,
               <<"air_preheater_1", "shell_inlet">>, "add_more_hx_connections"),
     o03 |-> A(<<"air_preheater_1", "shell_outlet">>,
               <<"preheat_split", "inlet">>, "add_more_hx_connections")]

AllArcs == DOMAIN ArcTable

ArcsOf(fn) == {a \in AllArcs : ArcTable[a].fn = fn}

SrcUnit(a) == ArcTable[a].src[1]

DstUnit(a) == ArcTable[a].dst[1]

-----------------------------------------------------------------------------
(* Ports declared with Port(rule=...) over references and expressions: they *)
(* hold no variable of their own and are read through the members named.   *)

h_side_temperature == <<"main_steam_split", "h_side_state", "temperature">>

DerivedPorts ==
    {<<"main_steam_split", "h_side_adapt">>,
     <<"bhx1", "shell_outlet_drop_water">>}

\* h_side_adapt declared without its mole_frac_comp member
DerivedFieldsNoComp(port) ==
    IF port = <<"main_steam_split", "h_side_adapt">>
    THEN {"flow_mol", "pressure", "temperature"}
    ELSE PkgFields("h2_compress_prop")

DerivedFields(port) ==
    IF port = <<"main_steam_split", "h_side_adapt">>
    THEN PkgFields("h2_prop")
    ELSE PkgFields("h2_compress_prop")

Fields(port) ==
    IF port \in DerivedPorts THEN DerivedFields(port)
    ELSE PkgFields(PortInfo(port).pkg)

AllVars == StateVars \cup {h_side_temperature}

\* Product of a port flow (mmol/s) and a mole fraction (1e-6), in mmol/s.
\* (F * x / 1e6, split so that no intermediate product leaves 32 bits.)
FlowTimesFrac(F, x) ==
    IF F = Unset \/ x = Unset THEN Unset
    ELSE (F \div 1000) * (x \div 1000)
         + ((F \div 1000) * (x % 1000)) \div 1000
         + ((F % 1000) * x) \div 1000000

ReadPort(v, port, f) ==
    IF port = <<"main_steam_split", "h_side_adapt">>
    THEN CASE f = "H2O" -> 1000000
           [] f = "H2" -> 0
           [] f = "temperature" -> v[h_side_temperature]
           [] OTHER -> v[<<"main_steam_split", "h_side", f>>]
    ELSE IF port = <<"bhx1", "shell_outlet_drop_water">>
    THEN CASE f = "H2" -> 1000000
           [] f = "flow_mol" ->
                FlowTimesFrac(v[<<"bhx1", "shell_outlet", "flow_mol">>],
                              v[<<"bhx1", "shell_outlet", "H2">>])
           [] OTHER -> v[<<"bhx1", "shell_outlet", f>>]
    ELSE v[<<port[1], port[2], f>>]

-----------------------------------------------------------------------------
(* Values the builders and the input functions fix.                        *)

\* iapws95.htpx(1073.15 K, 1.1e5 Pa), J/mol (rounded)
h_bhx2 == 74910

\* iapws95.htpx(T=310 K, P=101325 Pa), J/mol (rounded)
h_feed == 2782

Fx(u, m, f, x) == [v |-> <<u, m, f>>, x |-> x]

\* State variables each builder fixes, with the value.
BuilderFixes(fn) ==
    CASE fn = "add_asu" ->
           {Fx("air_compressor_s1", "outlet", "pressure", 111422),
            Fx("intercooler_s1", "outlet", "temperature", 31093),
            Fx("air_compressor_s2", "outlet", "pressure", 130686),
            Fx("intercooler_s2", "outlet", "temperature", 31093)}
      [] fn = "add_combustor" ->
           {Fx("pre_oxycombustor_translator", "outlet", j, 0) :
                j \in FuelComps \ AirComps}
      [] fn = "add_aux_boiler_steam" ->
           {Fx("bhx2", "outlet", "enth_mol", h_bhx2),
            Fx("aux_boiler_feed_pump", "outlet", "pressure", 110000)}
      [] fn = "add_soec_air_side_units" ->
           {Fx("air_blower", "outlet", "pressure", 110000),
            Fx("air_preheater_2", "tube_outlet", "temperature", 107315)}
      [] fn = "add_soec_unit" ->
           {Fx("soec", "inlet_fc_mult", "temperature", 107315),
            Fx("soec", "inlet_ac_mult", "temperature", 107315)}
      [] fn = "add_h2_compressor" ->
           {Fx("hcmp_ic01", "outlet", "temperature", 32000),
            Fx("hcmp01", "outlet", "pressure", 4000000),
            Fx("hcmp_ic02", "outlet", "temperature", 32000),
            Fx("hcmp02", "outlet", "pressure", 8000000),
            Fx("hcmp_ic03", "outlet", "temperature", 32000),
            Fx("hcmp03", "outlet", "pressure", 16000000),
            Fx("hcmp_ic04", "outlet", "temperature", 32000),
            Fx("hcmp04", "outlet", "pressure", 32000000)}
      [] fn = "add_hrsg_and_cpu" ->
           {Fx("soec_air_HRSG_1", "outlet", "temperature", 40500),
            Fx("soec_air_HRSG_2", "outlet", "temperature", 40500),
            Fx("fluegas_HRSG", "outlet", "temperature", 40500),
            Fx("condenser", "outlet", "temperature", 31090),
            Fx("flash", "vap_outlet", "temperature", 31090),
            Fx("flash", "liq_outlet", "temperature", 31090),
            Fx("flash", "vap_outlet", "pressure", 1013529),
            Fx("flash", "liq_outlet", "pressure", 1013529)}
           \cup {Fx("pre_oxycombustor_translator", "outlet", j, 0) :
                    j \in AirComps \ VLEComps}
      [] OTHER -> {}

\* Performance variables (not stream state) each builder fixes.
BuilderParams(fn) ==
    CASE fn = "add_asu" ->
           {<<"air_compressor_s1", "unit", "efficiency_isentropic">>,
            <<"intercooler_s1", "unit", "deltaP">>,
            <<"air_compressor_s2", "unit", "efficiency_isentropic">>,
            <<"intercooler_s2", "unit", "deltaP">>}
           \cup {<<"ASU", "split_fraction_O2_outlet", j>> : j \in AirComps}
      [] fn = "add_preheater" ->
           {<<"oxygen_preheater", "unit", "overall_heat_transfer_coefficient">>,
            <<"oxygen_preheater", "unit", "delta_temperature_in">>,
            <<"ng_preheater", "unit", "overall_heat_transfer_coefficient">>,
            <<"ng_preheater", "unit", "delta_temperature_in">>,
            <<"preheat_split", "split_fraction", "air">>}
      [] fn = "add_aux_boiler_steam" ->
           {<<"bhx1", "unit", "overall_heat_transfer_coefficient">>,
            <<"bhx1", "unit", "delta_temperature_out">>,
            <<"aux_boiler_feed_pump", "unit", "efficiency_isentropic">>,
            <<"main_steam_split", "split_fraction", "h_side">>}
      [] fn = "add_soec_air_side_units" ->
           {<<"air_blower", "unit", "efficiency_isentropic">>,
            <<"air_preheater_1", "unit", "overall_heat_transfer_coefficient">>,
            <<"air_preheater_1", "unit", "delta_temperature_in">>,
            <<"air_preheater_2", "unit", "overall_heat_transfer_coefficient">>}
      [] fn = "add_soec_unit" ->
           {<<"soec", "unit", x>> : x \in
                {"E_cell", "length", "width", "k_ae", "eact_ae", "alpha_ae",
                 "k_fe", "eact_fe", "alpha_fe"}}
           \cup {<<"soec", c, "thickness">> : c \in {"el", "fe", "ae", "fc", "ac"}}
           \cup {<<"soec", c, "k_res">> : c \in {"fe", "ae", "el"}}
           \cup {<<"soec", c, "E_res">> : c \in {"fe", "ae", "el"}}
           \cup {<<"soec", c, "porosity">> : c \in {"fe", "ae"}}
           \cup {<<"soec", c, "tortuosity">> : c \in {"fe", "ae"}}
           \cup {<<"soec", c, "temperature">> : c \in {"el", "fc", "ac", "fe", "ae"}}
           \cup {<<"spltf1", "split_fraction", "out">>,
                 <<"splta1", "split_fraction", "out">>}
      [] fn = "add_h2_compressor" ->
           {<<u, "unit", "efficiency_isentropic">> :
                u \in {"hcmp01", "hcmp02", "hcmp03", "hcmp04"}}
      [] OTHER -> {}

\* f with every variable named in the set of fixes fx set to its value.
Assign(f, fx) ==
    [w \in DOMAIN f |->
        IF \E e \in fx : e.v = w THEN (CHOOSE e \in fx : e.v = w).x ELSE f[w]]

-----------------------------------------------------------------------------
(* _set_port, set_guess, set_inputs.  A store is [fixed, val].             *)

\* v.fix(x) for every fix of the set fx
FixAll(st, fx) ==
    [fixed |-> st.fixed \cup {e.v : e \in fx}, val |-> Assign(st.val, fx)]

\* the F, T, P and comp arguments of _set_port as variable/value pairs
PortState(port, F, T, P, comp) ==
    {Fx(port[1], port[2], "flow_mol", F),
     Fx(port[1], port[2], "temperature", T),
     Fx(port[1], port[2], "pressure", P)}
    \cup {Fx(port[1], port[2], k, comp[k]) : k \in DOMAIN comp}

\* _set_port taking the fix branch whatever the flag
_set_port_fix_always(st, port, F, T, P, comp, fix) ==
    FixAll(st, PortState(port, F, T, P, comp))

_set_port(st, port, F, T, P, comp, fix) ==
    IF fix
    THEN FixAll(st, PortState(port, F, T, P, comp))
    ELSE [fixed |-> st.fixed,
          val |-> Assign(st.val, PortState(port, F, T, P, comp))]

comp_guess ==
    [O2 |-> 207400, H2O |-> 9900, CO2 |-> 300, N2 |-> 773200, Ar |-> 9200]

air_comp ==
    [O2 |-> 207400, H2O |-> 9900, CO2 |-> 300, N2 |-> 773200, Ar |-> 9200]

ng_comp ==
    [CH4 |-> 931000, C2H6 |-> 32000, C3H8 |-> 7000, C4H10 |-> 4000,
     O2 |-> 10, H2O |-> 10, CO2 |-> 10000, N2 |-> 16000, Ar |-> 10]

\* soec.fc.<f>[:, 0] and soec.ac.<f>[:, 0]: the variables behind the ports
\* inlet_fc_mult and inlet_ac_mult (flow_mol is the per-cell flow there).
fc(f, x) == Fx("soec", "inlet_fc_mult", f, x)

ac(f, x) == Fx("soec", "inlet_ac_mult", f, x)

set_guess_no_fix(st) ==
    LET s1 == _set_port(st, <<"preheat_split", "inlet">>,
                        6000000, 70000, 104000, comp_guess, FALSE)
    IN  FixAll(s1,
           {fc("temperature", 107315), fc("pressure", 100000),
            fc("H2O", 900000), fc("H2", 100000),
            ac("temperature", 107315), ac("pressure", 100000),
            ac("O2", 207400), ac("H2O", 9900), ac("N2", 773200),
            ac("Ar", 9200), ac("CO2", 300)})

set_guess(st) ==
    LET s1 == _set_port(st, <<"preheat_split", "inlet">>,
                        6000000, 70000, 104000, comp_guess, TRUE)
    IN  FixAll(s1,
           {fc("temperature", 107315), fc("pressure", 100000),
            fc("H2O", 900000), fc("H2", 100000),
            ac("temperature", 107315), ac("pressure", 100000),
            ac("O2", 207400), ac("H2O", 9900), ac("N2", 773200),
            ac("Ar", 9200), ac("CO2", 300)})

n_cells == 400000000

\* Flowsheet-level and unit variables set_inputs fixes besides stream state.
InputParams ==
    {<<"fs", "var", "cmb_temperature">>,
     <<"fs", "var", "soec_steam_temperature">>,
     <<"fs", "var", "soec_heat_duty">>,
     <<"soec", "unit", "n_cells">>}

\* set_inputs with the SOEC inlet H2 fraction re-fixed at another value
set_inputs_other_h2(st) ==
    LET s1 == _set_port(st, <<"air_compressor_s1", "inlet">>,
                        5000000, 33000, 101325, air_comp, TRUE)
        s2 == _set_port(s1, <<"ng_preheater", "tube_inlet">>,
                        380000, 33000, 104000, ng_comp, TRUE)
        s3 == _set_port(s2, <<"air_blower", "inlet">>,
                        3000000, 33000, 101325, air_comp, TRUE)
        s4 == _set_port(s3, <<"mxa1", "recycle">>, 1, 107315, 104000,
                        [O2 |-> 207400, H2O |-> 9900, CO2 |-> 300,
                         N2 |-> 773200, Ar |-> 9200], TRUE)
        s5 == FixAll(s4,
                {Fx("aux_boiler_feed_pump", "inlet", "flow_mol", 2000000),
                 Fx("aux_boiler_feed_pump", "inlet", "enth_mol", h_feed),
                 Fx("aux_boiler_feed_pump", "inlet", "pressure", 101325),
                 fc("H2", 200000), fc("flow_mol", 8), ac("flow_mol", 10)})
    IN  [fixed |-> s5.fixed \cup InputParams, val |-> s5.val]

\* set_inputs without the mxa1.recycle feed
set_inputs_no_recycle(st) ==
    LET s1 == _set_port(st, <<"air_compressor_s1", "inlet">>,
                        5000000, 33000, 101325, air_comp, TRUE)
        s2 == _set_port(s1, <<"ng_preheater", "tube_inlet">>,
                        380000, 33000, 104000, ng_comp, TRUE)
        s3 == _set_port(s2, <<"air_blower", "inlet">>,
                        3000000, 33000, 101325, air_comp, TRUE)
        s5 == FixAll(s3,
                {Fx("aux_boiler_feed_pump", "inlet", "flow_mol", 2000000),
                 Fx("aux_boiler_feed_pump", "inlet", "enth_mol", h_feed),
                 Fx("aux_boiler_feed_pump", "inlet", "pressure", 101325),
                 fc("H2", 100000), fc("flow_mol", 8), ac("flow_mol", 10)})
    IN  [fixed |-> s5.fixed \cup InputParams, val |-> s5.val]

set_inputs(st) ==
    LET s1 == _set_port(st, <<"air_compressor_s1", "inlet">>,
                        5000000, 33000, 101325, air_comp, TRUE)
        s2 == _set_port(s1, <<"ng_preheater", "tube_inlet">>,
                        380000, 33000, 104000, ng_comp, TRUE)
        s3 == _set_port(s2, <<"air_blower", "inlet">>,
                        3000000, 33000, 101325, air_comp, TRUE)
        s4 == _set_port(s3, <<"mxa1", "recycle">>, 1, 107315, 104000,
                        [O2 |-> 207400, H2O |-> 9900, CO2 |-> 300,
                         N2 |-> 773200, Ar |-> 9200], TRUE)
        s5 == FixAll(s4,
                {Fx("aux_boiler_feed_pump", "inlet", "flow_mol", 2000000),
                 Fx("aux_boiler_feed_pump", "inlet", "enth_mol", h_feed),
                 Fx("aux_boiler_feed_pump", "inlet", "pressure", 101325),
                 fc("H2", 100000), fc("flow_mol", 8), ac("flow_mol", 10)})
    IN  [fixed |-> s5.fixed \cup InputParams, val |-> s5.val]

-----------------------------------------------------------------------------
(* The text of get_model: one record per statement, with its source line.  *)

S(op, a, line) == [op |-> op, a |-> a, line |-> line]

\* the statements of function fn, each tagged with fn
Within(fn, body) ==
    [i \in 1..Len(body) |->
        [op |-> body[i].op, a |-> body[i].a, line |-> body[i].line, fn |-> fn]]

init_preheat_split ==
    <<S("initialize", "preheat_split", 1372),
      S("propagate_state", "o04", 1373),
      S("propagate_state", "o05", 1374)>>

init_asu_train ==
    <<S("initialize", "air_compressor_s1", 1376),
      S("propagate_state", "STAGE_1_OUT", 1377),
      S("initialize", "intercooler_s1", 1378),
      S("propagate_state", "IC_1_OUT", 1379),
      S("initialize", "air_compressor_s2", 1380),
      S("propagate_state", "STAGE_2_OUT", 1381),
      S("initialize", "intercooler_s2", 1382),
      S("propagate_state", "ba01", 1383),
      S("initialize", "ASU", 1384),
      S("propagate_state", "ba02", 1385),
      S("initialize", "oxygen_preheater", 1386),
      S("propagate_state", "cmb_mix_in", 1387),
      S("initialize", "pre_oxycombustor_translator", 1388),
      S("propagate_state", "ba03", 1389)>>

init_combustor ==
    <<S("initialize", "ng_preheater", 1391),
      S("propagate_state", "bng01", 1392),
      S("initialize", "cmb_mix", 1393),
      S("propagate_state", "bng02", 1394),
      S("initialize", "cmb", 1395),
      S("propagate_state", "cmb_out", 1396),
      S("initialize", "post_oxycombustor_translator", 1398),
      S("propagate_state", "fg01", 1399)>>

init_soec ==
    <<S("initialize", "soec", 1400),
      S("propagate_state", "h01", 1401),
      S("propagate_state", "o01", 1402),
      S("initialize", "spltf1", 1403),
      S("propagate_state", "h02", 1404),
      S("propagate_state", "hr01", 1405),
      S("initialize", "splta1", 1406),
      S("propagate_state", "o02", 1407)>>

init_steam ==
    <<S("initialize", "aux_boiler_feed_pump", 1409),
      S("propagate_state", "s01", 1410),
      S("initialize", "bhx1", 1411),
      S("propagate_state", "s02", 1412),
      S("initialize", "bhx2", 1413),
      S("propagate_state", "s03", 1414),
      S("initialize", "main_steam_split", 1416),
      S("propagate_state", "s10", 1417),
      S("initialize", "mxf1", 1419),
      S("propagate_state", "s12", 1420)>>

init_air_side ==
    <<S("initialize", "air_blower", 1422),
      S("propagate_state", "a01", 1423),
      S("initialize", "air_preheater_1", 1424),
      S("propagate_state", "a02", 1425),
      S("initialize", "air_preheater_2", 1426),
      S("propagate_state", "a03", 1427),
      S("propagate_state", "o03", 1428),
      S("initialize", "mxa1", 1429),
      S("propagate_state", "s13", 1430)>>

\* the traversal with the combustor train visited before the ASU train
traversal_combustor_first ==
    init_preheat_split \o init_combustor \o init_asu_train \o init_soec
    \o init_steam \o init_air_side

\* the traversal with each arc of the steam train propagated before its
\* source unit is initialized
traversal_propagate_early ==
    init_preheat_split \o init_asu_train \o init_combustor \o init_soec
    \o <<S("propagate_state", "s01", 1410),
         S("initialize", "aux_boiler_feed_pump", 1409),
         S("initialize", "bhx1", 1411),
         S("propagate_state", "s02", 1412),
         S("initialize", "bhx2", 1413),
         S("propagate_state", "s03", 1414),
         S("initialize", "main_steam_split", 1416),
         S("propagate_state", "s10", 1417),
         S("initialize", "mxf1", 1419),
         S("propagate_state", "s12", 1420)>>
    \o init_air_side

\* the traversal with the SOEC initialized again once its inlets are fed
traversal_reinit_soec ==
    init_preheat_split \o init_asu_train \o init_combustor \o init_soec
    \o init_steam \o init_air_side
    \o <<S("initialize", "soec", 1400)>>

initialize_plant_traversal ==
    init_preheat_split \o init_asu_train \o init_combustor \o init_soec
    \o init_steam \o init_air_side

soec_var(m, f) == <<"soec", m, f>>

initialize_plant_release ==
    <<S("unfix", PortVars(<<"preheat_split", "inlet">>), 1433),
      S("unfix", {<<"bhx2", "outlet", "enth_mol">>}, 1437),
      S("unfix", {<<"air_compressor_s1", "inlet", "flow_mol">>}, 1438),
      S("unfix", {<<"ng_preheater", "tube_inlet", "flow_mol">>}, 1439),
      S("unfix", {soec_var("unit", "E_cell")}, 1440),
      S("deactivate", "s12", 1444),
      S("deactivate", "s13", 1445),
      S("activate", "s12", 1456),
      S("activate", "s13", 1457),
      S("unfix", {soec_var("inlet_fc_mult", "pressure")}, 1459),
      S("unfix", {soec_var("inlet_fc_mult", "temperature")}, 1460),
      S("unfix", {soec_var("inlet_fc_mult", "H2O")}, 1461),
      S("unfix", {soec_var("inlet_ac_mult", "pressure")}, 1463),
      S("unfix", {soec_var("inlet_ac_mult", "temperature")}, 1464),
      S("unfix", {soec_var("inlet_ac_mult", "H2O")}, 1465),
      S("unfix", {soec_var("inlet_ac_mult", "O2")}, 1466),
      S("unfix", {soec_var("inlet_ac_mult", "N2")}, 1467),
      S("unfix", {soec_var("inlet_ac_mult", "Ar")}, 1468),
      S("unfix", {soec_var("inlet_ac_mult", "CO2")}, 1469),
      S("unfix", {<<"spltf1", "split_fraction", "out">>}, 1471),
      S("unfix", {<<"aux_boiler_feed_pump", "inlet", "flow_mol">>}, 1475),
      S("unfix", {<<"air_blower", "inlet", "flow_mol">>}, 1477)>>

\* the options= argument with the configured linear solver
plant_solve_options_ma57 ==
    [max_iter |-> "200", tol |-> "1e-7", bound_push |-> "1e-12",
     linear_solver |-> "ma57"]

\* the options= argument of the phase-1 solve
plant_solve_options ==
    [max_iter |-> "200", tol |-> "1e-7", bound_push |-> "1e-12",
     linear_solver |-> "ma27"]

NoOptions == [k \in {} |-> ""]

\* initialize_plant with the tear guesses released before the air side is
\* traversed
initialize_plant_release_early ==
    Within("initialize_plant",
        init_preheat_split \o init_asu_train \o init_combustor \o init_soec
        \o init_steam \o initialize_plant_release \o init_air_side
        \o <<S("solve", plant_solve_options, 1479)>>)

initialize_plant ==
    Within("initialize_plant",
        initialize_plant_traversal \o initialize_plant_release
        \o <<S("solve", plant_solve_options, 1479)>>)

\* initialize_bop with hcmp_ic01.inlet fed by propagating arc h03
initialize_bop_with_h03 ==
    Within("initialize_bop",
      <<S("propagate_state", "h03", 1490),
        S("initialize", "hcmp_ic01", 1492),
        S("propagate_state", "h04", 1493),
        S("initialize", "hcmp01", 1494),
        S("propagate_state", "h05", 1495),
        S("initialize", "hcmp_ic02", 1496),
        S("propagate_state", "h06", 1497),
        S("initialize", "hcmp02", 1498),
        S("propagate_state", "h07", 1499),
        S("initialize", "hcmp_ic03", 1500),
        S("propagate_state", "h08", 1501),
        S("initialize", "hcmp03", 1502),
        S("propagate_state", "h09", 1503),
        S("initialize", "hcmp_ic04", 1504),
        S("propagate_state", "h10", 1505),
        S("initialize", "hcmp04", 1506),
        S("propagate_state", "a06", 1508),
        S("initialize", "soec_air_HRSG_1", 1509),
        S("propagate_state", "a07", 1510),
        S("initialize", "soec_air_HRSG_2", 1511),
        S("propagate_state", "fg02", 1512),
        S("initialize", "fluegas_HRSG", 1513),
        S("propagate_state", "fg03", 1514),
        S("initialize", "CPU_translator", 1515),
        S("propagate_state", "fg04", 1517),
        S("initialize", "condenser", 1518),
        S("propagate_state", "fg05", 1519),
        S("initialize", "flash", 1520),
        S("copy_port_values",
          [source |-> <<"flash", "vap_outlet">>,
           destination |-> <<"CPU", "inlet">>], 1525),
        S("calculate_variable_from_constraint",
          [var |-> <<"CPU", "inlet", "flow_mol">>,
           from |-> <<"flash", "vap_outlet", "flow_mol">>], 1527),
        S("calculate_variable_from_constraint",
          [var |-> <<"CPU", "inlet", "pressure">>,
           from |-> <<"flash", "vap_outlet", "pressure">>], 1529),
        S("initialize", "CPU", 1531),
        S("constraint_autoscale_large_jac", "m", 1534),
        S("solve", NoOptions, 1536)>>)

initialize_bop ==
    Within("initialize_bop",
      <<S("copy_port_values",
          [source |-> <<"bhx1", "shell_outlet">>,
           destination |-> <<"hcmp_ic01", "inlet">>], 1490),
        S("initialize", "hcmp_ic01", 1492),
        S("propagate_state", "h04", 1493),
        S("initialize", "hcmp01", 1494),
        S("propagate_state", "h05", 1495),
        S("initialize", "hcmp_ic02", 1496),
        S("propagate_state", "h06", 1497),
        S("initialize", "hcmp02", 1498),
        S("propagate_state", "h07", 1499),
        S("initialize", "hcmp_ic03", 1500),
        S("propagate_state", "h08", 1501),
        S("initialize", "hcmp03", 1502),
        S("propagate_state", "h09", 1503),
        S("initialize", "hcmp_ic04", 1504),
        S("propagate_state", "h10", 1505),
        S("initialize", "hcmp04", 1506),
        S("propagate_state", "a06", 1508),
        S("initialize", "soec_air_HRSG_1", 1509),
        S("propagate_state", "a07", 1510),
        S("initialize", "soec_air_HRSG_2", 1511),
        S("propagate_state", "fg02", 1512),
        S("initialize", "fluegas_HRSG", 1513),
        S("propagate_state", "fg03", 1514),
        S("initialize", "CPU_translator", 1515),
        S("propagate_state", "fg04", 1517),
        S("initialize", "condenser", 1518),
        S("propagate_state", "fg05", 1519),
        S("initialize", "flash", 1520),
        S("copy_port_values",
          [source |-> <<"flash", "vap_outlet">>,
           destination |-> <<"CPU", "inlet">>], 1525),
        S("calculate_variable_from_constraint",
          [var |-> <<"CPU", "inlet", "flow_mol">>,
           from |-> <<"flash", "vap_outlet", "flow_mol">>], 1527),
        S("calculate_variable_from_constraint",
          [var |-> <<"CPU", "inlet", "pressure">>,
           from |-> <<"flash", "vap_outlet", "pressure">>], 1529),
        S("initialize", "CPU", 1531),
        S("constraint_autoscale_large_jac", "m", 1534),
        S("solve", NoOptions, 1536)>>)

\* the variables list with net_power ahead of transformer_losses
variables_net_power_early ==
    <<"hydrogen_product_rate", "h2_compressor_power", "soec_power",
      "HRSG_heat_duty", "ASU_HP_steam_heat", "steam_cycle_heat",
      "steam_cycle_power", "steam_cycle_loss", "feedwater_pump_work",
      "condensate_pump_work", "steam_turbine_auxiliary", "misc_BOP_load",
      "cooling_water_duty", "cooling_water_flowrate", "circulating_pump_work",
      "cooling_tower_load", "auxiliary_load", "net_power",
      "transformer_losses", "HHV_efficiency", "CO2_captured", "CO2_emissions">>

Con(defines, uses) == [defines |-> defines, uses |-> uses]

\* add_result_constraints: each constraint given to initialize_results, with
\* the result variable on its left-hand side and the other result variables
\* its rule reads (h2_product_rate_mass reads hydrogen_product_rate)
add_result_constraints ==
    [soec_power_constraint |-> Con("soec_power", {}),
     hydrogen_product_rate_constraint |-> Con("hydrogen_product_rate", {}),
     h2_compressor_power_constraint |-> Con("h2_compressor_power", {}),
     HRSG_heat_duty_constraint |-> Con("HRSG_heat_duty", {}),
     ASU_HP_steam_constraint |-> Con("ASU_HP_steam_heat", {}),
     steam_cycle_heat_constraint |->
         Con("steam_cycle_heat", {"HRSG_heat_duty", "ASU_HP_steam_heat"}),
     steam_cycle_power_constraint |->
         Con("steam_cycle_power", {"steam_cycle_heat"}),
     steam_cycle_loss_constraint |->
         Con("steam_cycle_loss", {"steam_cycle_heat"}),
     feedwater_pump_work_constraint |->
         Con("feedwater_pump_work", {"steam_cycle_power"}),
     condensate_pump_work_constraint |->
         Con("condensate_pump_work", {"steam_cycle_power"}),
     steam_turbine_auxiliary_constraint |->
         Con("steam_turbine_auxiliary", {"steam_cycle_power"}),
     misc_BOP_load_constraint |-> Con("misc_BOP_load", {}),
     cooling_water_duty_constraint |->
         Con("cooling_water_duty", {"steam_cycle_loss"}),
     cooling_water_flowrate_constraint |->
         Con("cooling_water_flowrate", {"cooling_water_duty"}),
     circulating_pump_work_constraint |->
         Con("circulating_pump_work", {"cooling_water_flowrate"}),
     cooling_tower_load_constraint |->
         Con("cooling_tower_load", {"cooling_water_flowrate"}),
     auxiliary_load_constraint |->
         Con("auxiliary_load",
             {"feedwater_pump_work", "condensate_pump_work",
              "steam_turbine_auxiliary", "misc_BOP_load",
              "circulating_pump_work", "cooling_tower_load"}),
     transformer_losses_constraint |->
         Con("transformer_losses", {"auxiliary_load", "steam_cycle_power"}),
     net_power_constraint |->
         Con("net_power",
             {"steam_cycle_power", "soec_power", "auxiliary_load",
              "transformer_losses"}),
     efficiency_rule |->
         Con("HHV_efficiency", {"net_power", "hydrogen_product_rate"}),
     CO2_captured_constraint |-> Con("CO2_captured", {}),
     CO2_emission_constraint |-> Con("CO2_emissions", {})]

\* A term of a load sum: the work of a load over an efficiency in per cent
\* (100: the work itself).
Term(load, eff) == [load |-> load, eff |-> eff]

\* the right-hand side of auxiliary_load_constraint
auxiliary_load ==
    <<Term("CPU", 100), Term("feedwater_pump_work", 100),
      Term("condensate_pump_work", 100), Term("steam_turbine_auxiliary", 100),
      Term("misc_BOP_load", 100), Term("circulating_pump_work", 100),
      Term("cooling_tower_load", 100),
      Term("air_blower", 95), Term("aux_boiler_feed_pump", 95),
      Term("air_compressor_s1", 96), Term("air_compressor_s2", 96),
      Term("hcmp01", 96), Term("hcmp02", 96), Term("hcmp03", 96),
      Term("hcmp04", 96)>>

\* HV_aux of transformer_losses_constraint
HV_aux ==
    <<Term("air_compressor_s1", 96), Term("air_compressor_s2", 96),
      Term("air_compressor_s2", 96),
      Term("hcmp01", 96), Term("hcmp02", 96), Term("hcmp03", 96),
      Term("hcmp04", 96), Term("CPU", 100)>>

RECURSIVE SumTerms(_, _)
\* the value of a load sum when load l draws the work W[l]
SumTerms(terms, W) ==
    IF terms = <<>> THEN 0
    ELSE (W[Head(terms).load] * 100) \div Head(terms).eff
         + SumTerms(Tail(terms), W)

\* MV_aux = fs.auxiliary_load[t] - HV_aux
MV_aux(W) == SumTerms(auxiliary_load, W) - SumTerms(HV_aux, W)

\* initialize_results: the two lists it zips
variables ==
    <<"hydrogen_product_rate", "h2_compressor_power", "soec_power",
      "HRSG_heat_duty", "ASU_HP_steam_heat", "steam_cycle_heat",
      "steam_cycle_power", "steam_cycle_loss", "feedwater_pump_work",
      "condensate_pump_work", "steam_turbine_auxiliary", "misc_BOP_load",
      "cooling_water_duty", "cooling_water_flowrate", "circulating_pump_work",
      "cooling_tower_load", "auxiliary_load", "transformer_losses",
      "net_power", "HHV_efficiency", "CO2_captured", "CO2_emissions">>

constraints ==
    <<"hydrogen_product_rate_constraint", "h2_compressor_power_constraint",
      "soec_power_constraint", "HRSG_heat_duty_constraint",
      "ASU_HP_steam_constraint", "steam_cycle_heat_constraint",
      "steam_cycle_power_constraint", "steam_cycle_loss_constraint",
      "feedwater_pump_work_constraint", "condensate_pump_work_constraint",
      "steam_turbine_auxiliary_constraint", "misc_BOP_load_constraint",
      "cooling_water_duty_constraint", "cooling_water_flowrate_constraint",
      "circulating_pump_work_constraint", "cooling_tower_load_constraint",
      "auxiliary_load_constraint", "transformer_losses_constraint",
      "net_power_constraint", "efficiency_rule", "CO2_captured_constraint",
      "CO2_emission_constraint">>

\* zip(v, c): as many pairs as the shorter list has
zip(v, c) ==
    [i \in 1..(IF Len(v) <= Len(c) THEN Len(v) ELSE Len(c)) |->
        [var |-> v[i], con |-> c[i]]]

\* for v, c in zip(variables, constraints):
\*     calculate_variable_from_constraint(v[t], c[t])
initialize_results ==
    Within("initialize_results",
        [i \in 1..Len(zip(variables, constraints)) |->
            S("calculate_result", zip(variables, constraints)[i], 1279)])

\* the builders with add_combustor called before add_soec_air_side_units
get_model_build_combustor_first ==
    Within("get_model",
      <<S("build", "add_flowsheet", 1929),
        S("build", "add_properties", 1931),
        S("build", "add_asu", 1932),
        S("build", "add_preheater", 1933),
        S("build", "add_combustor", 1935),
        S("build", "add_soec_air_side_units", 1934),
        S("build", "add_aux_boiler_steam", 1936),
        S("build", "add_soec_unit", 1937),
        S("build", "add_more_hx_connections", 1938),
        S("build", "add_soec_inlet_mix", 1939),
        S("build", "add_design_constraints", 1941),
        S("expand_arcs", "m", 1942)>>)

get_model_build ==
    Within("get_model",
      <<S("build", "add_flowsheet", 1929),
        S("build", "add_properties", 1931),
        S("build", "add_asu", 1932),
        S("build", "add_preheater", 1933),
        S("build", "add_soec_air_side_units", 1934),
        S("build", "add_combustor", 1935),
        S("build", "add_aux_boiler_steam", 1936),
        S("build", "add_soec_unit", 1937),
        S("build", "add_more_hx_connections", 1938),
        S("build", "add_soec_inlet_mix", 1939),
        S("build", "add_design_constraints", 1941),
        S("expand_arcs", "m", 1942)>>)

get_model_inputs ==
    Within("get_model",
      <<S("set_guess", "m", 1944),
        S("set_inputs", "m", 1945)>>)

get_model_scaling ==
    Within("get_model",
      <<S("get_solver", "m", 1946),
        S("scaling", "additional_scaling", 1947),
        S("scale_arc_constraints", "m", 1948)>>)

\* the extension with additional_scaling_2 called before the new arcs are
\* expanded
get_model_extend_scaling_first ==
    Within("get_model",
      <<S("build", "add_h2_compressor", 1951),
        S("build", "add_hrsg_and_cpu", 1952),
        S("scaling", "additional_scaling_2", 1955),
        S("expand_arcs", "m", 1953)>>)

get_model_extend ==
    Within("get_model",
      <<S("build", "add_h2_compressor", 1951),
        S("build", "add_hrsg_and_cpu", 1952),
        S("expand_arcs", "m", 1953),
        S("scaling", "additional_scaling_2", 1955)>>)

get_model_results ==
    Within("get_model",
      <<S("call", "check_scaling", 1957),
        S("call", "add_result_constraints", 1958)>>)
    \o initialize_results
    \o Within("get_model",
      <<S("call", "tag_inputs_opt_vars", 1960),
        S("call", "tag_for_pfd_and_tables", 1961),
        S("call", "display_input_tags", 1962),
        S("return", "m", 1963)>>)

\* get_model with the guesses and inputs set only after initialize_plant
get_model_guess_late ==
    get_model_build \o get_model_scaling \o initialize_plant
    \o get_model_inputs
    \o get_model_extend \o initialize_bop \o get_model_results

get_model_body ==
    get_model_build \o get_model_inputs \o get_model_scaling
    \o initialize_plant
    \o get_model_extend \o initialize_bop \o get_model_results

-----------------------------------------------------------------------------
(* The collaborators outside the flowsheet file: propagate_state and       *)
(* copy_port_values, a unit's initialize(), expand_arcs, the solver.       *)

\* Copy the source port's state onto the destination port's variables that
\* are not fixed; a fixed destination variable keeps its value.
propagate_state(v, fx, src, dst) ==
    [w \in DOMAIN v |->
        IF /\ w[1] = dst[1] /\ w[2] = dst[2]
           /\ w[3] \in Fields(src) \cap Fields(dst)
           /\ w \notin fx
        THEN ReadPort(v, src, w[3])
        ELSE v[w]]

\* Temperature of the water package at the two enthalpies the flowsheet
\* computes with htpx.
TofH(h) ==
    CASE h = h_bhx2 -> 107315
      [] h = h_feed -> 31000
      [] OTHER -> Unset

\* The local estimate of outlet variable <<u, p, f>>: the state of the inlet
\* the outlet is fed from; a component the inlet does not carry is absent
\* (0); the SOEC outlet flow is the per-cell channel flow times n_cells.
Estimate(v, u, p, f) ==
    LET from == UnitTable[u].ports[p].from
        x == v[<<u, from, f>>]
    IN  IF f \notin Fields(<<u, from>>) THEN 0
        ELSE IF u = "soec" /\ f = "flow_mol"
        THEN (IF x = Unset THEN Unset ELSE x * (n_cells \div 1000))
        ELSE x

\* unit.initialize(): writes the estimate into every outlet variable that is
\* not fixed, and leaves every fixed flag as it found it.
initialize(v, fx, u) ==
    [w \in DOMAIN v |->
        IF w = h_side_temperature /\ u = "main_steam_split"
        THEN TofH(v[<<"main_steam_split", "inlet", "enth_mol">>])
        ELSE IF /\ w[1] = u /\ <<w[1], w[2]>> \in Outlets(u) /\ w \notin fx
        THEN Estimate(v, u, w[2], w[3])
        ELSE v[w]]

\* iscale.calculate_scaling_factors(m): after the blocks' own scaling
\* methods it scales the constraints of every expanded arc from the scaling
\* factors of the port variables, as scale_arc_constraints does.
calculate_scaling_factors(sc, ex) == sc \cup ex

\* What solve(model, initial_point, options) may report.
SolverStatus ==
    {"Converged", "MaxIterationsExceeded", "Infeasible", "NumericalError"}

\* options= of a solve call laid over the configured options
EffectiveOptions(base, opts) ==
    [k \in DOMAIN base \cup DOMAIN opts |->
        IF k \in DOMAIN opts THEN opts[k] ELSE base[k]]

get_solver ==
    [nlp_scaling_method |-> "user-scaling", tol |-> "1e-7",
     halt_on_ampl_error |-> "yes", bound_push |-> "1e-12",
     linear_solver |-> "ma57", max_iter |-> "200"]

-----------------------------------------------------------------------------
(* The interpreter: one action per kind of statement.                      *)

Stmt == get_model_body[pc]

At(op) == status = "running" /\ pc <= Len(get_model_body) /\ Stmt.op = op

Init ==
    /\ pc = 1
    /\ status = "running"
    /\ units = {}
    /\ arcs = {}
    /\ expanded = {}
    /\ active = {}
    /\ scaledArcs = {}
    /\ fixed = {}
    /\ val = [w \in AllVars |-> Unset]
    /\ inited = <<>>
    /\ propagated = <<>>
    /\ copies = <<>>
    /\ solver = NoOptions
    /\ solves = <<>>
    /\ raised = <<>>
    /\ runs = 1

\* add_flowsheet .. add_design_constraints, add_h2_compressor,
\* add_hrsg_and_cpu: create the units and arcs, fix the specified variables;
\* add_soec_air_side_units ends with expand_arcs.
Build ==
    /\ At("build")
    /\ LET fn == Stmt.a
           st == FixAll([fixed |-> fixed, val |-> val], BuilderFixes(fn))
           ex == fn = "add_soec_air_side_units"
       IN  /\ units' = units \cup UnitsOf(fn)
           /\ arcs' = arcs \cup ArcsOf(fn)
           /\ fixed' = st.fixed \cup BuilderParams(fn)
           /\ val' = st.val
           /\ expanded' = IF ex THEN expanded \cup arcs' ELSE expanded
           /\ active' = IF ex THEN active \cup (arcs' \ expanded) ELSE active
    /\ pc' = pc + 1
    /\ UNCHANGED <<status, scaledArcs, inited, propagated, copies, solver,
                   solves, raised, runs>>

\* network.expand_arcs: every arc not yet expanded gets an active block
ExpandArcs ==
    /\ At("expand_arcs")
    /\ expanded' = expanded \cup arcs
    /\ active' = active \cup (arcs \ expanded)
    /\ pc' = pc + 1
    /\ UNCHANGED <<status, units, arcs, scaledArcs, fixed, val, inited,
                   propagated, copies, solver, solves, raised, runs>>

SetGuess ==
    /\ At("set_guess")
    /\ LET st == set_guess([fixed |-> fixed, val |-> val])
       IN  fixed' = st.fixed /\ val' = st.val
    /\ pc' = pc + 1
    /\ UNCHANGED <<status, units, arcs, expanded, active, scaledArcs, inited,
                   propagated, copies, solver, solves, raised, runs>>

SetInputs ==
    /\ At("set_inputs")
    /\ LET st == set_inputs([fixed |-> fixed, val |-> val])
       IN  fixed' = st.fixed /\ val' = st.val
    /\ pc' = pc + 1
    /\ UNCHANGED <<status, units, arcs, expanded, active, scaledArcs, inited,
                   propagated, copies, solver, solves, raised, runs>>

GetSolver ==
    /\ At("get_solver")
    /\ solver' = get_solver
    /\ pc' = pc + 1
    /\ UNCHANGED <<status, units, arcs, expanded, active, scaledArcs, fixed,
                   val, inited, propagated, copies, solves, raised, runs>>

\* additional_scaling, additional_scaling_2: scaling factors and constraint
\* transforms of unit equations, then iscale.calculate_scaling_factors(m)
Scaling ==
    /\ At("scaling")
    /\ scaledArcs' = calculate_scaling_factors(scaledArcs, expanded)
    /\ pc' = pc + 1
    /\ UNCHANGED <<status, units, arcs, expanded, active, fixed, val, inited,
                   propagated, copies, solver, solves, raised, runs>>

\* iscale.scale_arc_constraints(m): the arc blocks that exist at the call
ScaleArcConstraints ==
    /\ At("scale_arc_constraints")
    /\ scaledArcs' = scaledArcs \cup expanded
    /\ pc' = pc + 1
    /\ UNCHANGED <<status, units, arcs, expanded, active, fixed, val, inited,
                   propagated, copies, solver, solves, raised, runs>>

\* m.fs.<unit>.initialize() returns
Initialize ==
    /\ At("initialize")
    /\ val' = initialize(val, fixed, Stmt.a)
    /\ inited' = Append(inited, Stmt.a)
    /\ pc' = pc + 1
    /\ UNCHANGED <<status, units, arcs, expanded, active, scaledArcs, fixed,
                   propagated, copies, solver, solves, raised, runs>>

\* the initialize() call with the exception swallowed and the run going on
InitializeFailsContinue ==
    /\ At("initialize")
    /\ raised' = Append(raised, [unit |-> Stmt.a, line |-> Stmt.line])
    /\ pc' = pc + 1
    /\ UNCHANGED <<status, units, arcs, expanded, active, scaledArcs, fixed,
                   val, inited, propagated, copies, solver, solves, runs>>

\* m.fs.<unit>.initialize() raises: nothing in get_model catches it
InitializeFails ==
    /\ At("initialize")
    /\ raised' = Append(raised, [unit |-> Stmt.a, line |-> Stmt.line])
    /\ status' = "failed"
    /\ UNCHANGED <<pc, units, arcs, expanded, active, scaledArcs, fixed, val,
                   inited, propagated, copies, solver, solves, runs>>

PropagateState ==
    /\ At("propagate_state")
    /\ val' = propagate_state(val, fixed, ArcTable[Stmt.a].src,
                              ArcTable[Stmt.a].dst)
    /\ propagated' = Append(propagated, Stmt.a)
    /\ pc' = pc + 1
    /\ UNCHANGED <<status, units, arcs, expanded, active, scaledArcs, fixed,
                   inited, copies, solver, solves, raised, runs>>

CopyPortValues ==
    /\ At("copy_port_values")
    /\ val' = propagate_state(val, fixed, Stmt.a.source, Stmt.a.destination)
    /\ copies' = Append(copies, Stmt.a)
    /\ pc' = pc + 1
    /\ UNCHANGED <<status, units, arcs, expanded, active, scaledArcs, fixed,
                   inited, propagated, solver, solves, raised, runs>>

Unfix ==
    /\ At("unfix")
    /\ fixed' = fixed \ Stmt.a
    /\ pc' = pc + 1
    /\ UNCHANGED <<status, units, arcs, expanded, active, scaledArcs, val,
                   inited, propagated, copies, solver, solves, raised, runs>>

Deactivate ==
    /\ At("deactivate")
    /\ active' = active \ {Stmt.a}
    /\ pc' = pc + 1
    /\ UNCHANGED <<status, units, arcs, expanded, scaledArcs, fixed, val,
                   inited, propagated, copies, solver, solves, raised, runs>>

\* the activate() calls left out
ActivateSkipped ==
    /\ At("activate")
    /\ pc' = pc + 1
    /\ UNCHANGED <<status, units, arcs, expanded, active, scaledArcs, fixed,
                   val, inited, propagated, copies, solver, solves, raised,
                   runs>>

Activate ==
    /\ At("activate")
    /\ active' = active \cup {Stmt.a}
    /\ pc' = pc + 1
    /\ UNCHANGED <<status, units, arcs, expanded, scaledArcs, fixed, val,
                   inited, propagated, copies, solver, solves, raised, runs>>

\* solver.solve(m, ...): the status it reports is not looked at
Solve ==
    /\ At("solve")
    /\ \E st \in SolverStatus :
          solves' = Append(solves,
              [fn |-> Stmt.fn, line |-> Stmt.line, status |-> st,
               options |-> EffectiveOptions(solver, Stmt.a),
               inactive |-> expanded \ active,
               fixed |-> fixed,
               unscaled |-> expanded \ scaledArcs])
    /\ pc' = pc + 1
    /\ UNCHANGED <<status, units, arcs, expanded, active, scaledArcs, fixed,
                   val, inited, propagated, copies, solver, raised, runs>>

\* calculate_variable_from_constraint on CPU_inlet_F / CPU_inlet_P
CalculateVariableFromConstraint ==
    /\ At("calculate_variable_from_constraint")
    /\ val' = [val EXCEPT ![Stmt.a.var] = val[Stmt.a.from]]
    /\ pc' = pc + 1
    /\ UNCHANGED <<status, units, arcs, expanded, active, scaledArcs, fixed,
                   inited, propagated, copies, solver, solves, raised, runs>>

ConstraintAutoscaleLargeJac ==
    /\ At("constraint_autoscale_large_jac")
    /\ pc' = pc + 1
    /\ UNCHANGED <<status, units, arcs, expanded, active, scaledArcs, fixed,
                   val, inited, propagated, copies, solver, solves, raised,
                   runs>>

\* calculate_variable_from_constraint(v[t], c[t]) of initialize_results: the
\* result variable takes the value its constraint gives it
CalculateResult ==
    /\ At("calculate_result")
    /\ pc' = pc + 1
    /\ UNCHANGED <<status, units, arcs, expanded, active, scaledArcs, fixed,
                   val, inited, propagated, copies, solver, solves, raised,
                   runs>>

\* check_scaling, add_result_constraints, the tag functions
Call ==
    /\ At("call")
    /\ pc' = pc + 1
    /\ UNCHANGED <<status, units, arcs, expanded, active, scaledArcs, fixed,
                   val, inited, propagated, copies, solver, solves, raised,
                   runs>>

Return ==
    /\ At("return")
    /\ status' = "done"
    /\ pc' = pc + 1
    /\ UNCHANGED <<units, arcs, expanded, active, scaledArcs, fixed, val,
                   inited, propagated, copies, solver, solves, raised, runs>>

Next ==
    \/ Build
    \/ ExpandArcs
    \/ SetGuess
    \/ SetInputs
    \/ GetSolver
    \/ Scaling
    \/ ScaleArcConstraints
    \/ Initialize
    \/ InitializeFails
    \/ PropagateState
    \/ CopyPortValues
    \/ Unfix
    \/ Deactivate
    \/ Activate
    \/ Solve
    \/ CalculateVariableFromConstraint
    \/ ConstraintAutoscaleLargeJac
    \/ CalculateResult
    \/ Call
    \/ Return

Spec == Init /\ [][Next]_vars

-----------------------------------------------------------------------------
(* get_model called again with the model an earlier call returned.         *)

\* get_model calls considered on one model instance
MaxRuns == 2

\* get_model(m) with m the model a finished call returned: add_flowsheet
\* is entered with m not None and m.fs present
GetModelAgain ==
    /\ status = "done"
    /\ runs < MaxRuns
    /\ runs' = runs + 1
    /\ pc' = 1
    /\ status' = "running"
    /\ UNCHANGED <<units, arcs, expanded, active, scaledArcs, fixed, val,
                   inited, propagated, copies, solver, solves, raised>>

\* a builder assigning a component whose name the block already holds:
\* the library may replace the component (Build) or refuse it (this action)
RebuildRaises ==
    /\ At("build")
    /\ runs > 1
    /\ Stmt.a # "add_flowsheet"
    /\ status' = "failed"
    /\ UNCHANGED <<pc, units, arcs, expanded, active, scaledArcs, fixed, val,
                   inited, propagated, copies, solver, solves, raised, runs>>

NextReentry ==
    \/ Next
    \/ GetModelAgain
    \/ RebuildRaises

SpecReentry == Init /\ [][NextReentry]_vars

-----------------------------------------------------------------------------
(* _set_port on its own: calls with either value of fix, on ports of the   *)
(* air and the fuel package, with full and partial compositions.           *)

SetPortPorts == {<<"preheat_split", "inlet">>, <<"ng_preheater", "tube_inlet">>}

SetPortFlows == {6000000, 380000}

\* the comp dictionaries passed for a port: a full one and a partial one
SetPortComps(port) ==
    IF PortInfo(port).pkg = "air_prop"
    THEN {comp_guess, [O2 |-> 500000, N2 |-> 500000]}
    ELSE {ng_comp, [CH4 |-> 1000000]}

InitSetPort ==
    /\ pc = Len(get_model_body) + 1
    /\ status = "done"
    /\ units = AllUnits
    /\ arcs = AllArcs
    /\ expanded = {}
    /\ active = {}
    /\ scaledArcs = {}
    /\ fixed = {}
    /\ val = [w \in AllVars |-> Unset]
    /\ inited = <<>>
    /\ propagated = <<>>
    /\ copies = <<>>
    /\ solver = NoOptions
    /\ solves = <<>>
    /\ raised = <<>>
    /\ runs = 1

SetPortCall ==
    /\ \E port \in SetPortPorts, F \in SetPortFlows, fix \in BOOLEAN :
          \E comp \in SetPortComps(port) :
             LET st == _set_port([fixed |-> fixed, val |-> val],
                                 port, F, 70000, 104000, comp, fix)
             IN  fixed' = st.fixed /\ val' = st.val
    /\ UNCHANGED <<pc, status, units, arcs, expanded, active, scaledArcs,
                   inited, propagated, copies, solver, solves, raised, runs>>

NextSetPort == SetPortCall

SpecSetPort == InitSetPort /\ [][NextSetPort]_vars

-----------------------------------------------------------------------------
(* Vocabulary of the properties.                                           *)

Range(s) == {s[i] : i \in DOMAIN s}

\* the builders get_model calls only after initialize_plant
BopBuilders == {"add_h2_compressor", "add_hrsg_and_cpu"}

\* the core arcs as they would be without a02, the air stream between the
\* two air preheaters
CoreArcs_no_a02 ==
    {a \in AllArcs : ArcTable[a].fn \notin BopBuilders} \ {"a02"}

CoreArcs == {a \in AllArcs : ArcTable[a].fn \notin BopBuilders}

CoreUnits == {u \in AllUnits : UnitTable[u].fn \notin BopBuilders}

\* the ports set_guess gives a guess: the destinations of the tear streams
TearPorts ==
    {<<"preheat_split", "inlet">>, <<"soec", "inlet_fc_mult">>,
     <<"soec", "inlet_ac_mult">>}

TearArcs == {a \in AllArcs : ArcTable[a].dst \in TearPorts}

\* the statement about to run (whether or not the run is still going)
Calling(op) == pc <= Len(get_model_body) /\ Stmt.op = op

\* a statement of kind op has been executed
Executed(op) == \E i \in 1..(pc - 1) : get_model_body[i].op = op

\* port is the destination of an earlier propagate_state or copy_port_values
Fed(port) ==
    \/ \E i \in DOMAIN propagated : ArcTable[propagated[i]].dst = port
    \/ \E i \in DOMAIN copies : copies[i].destination = port

\* every variable of the port is fixed at a value
Guessed(port) == \A w \in PortVars(port) : w \in fixed /\ val[w] # Unset

\* C1: the order of the initialize() calls of initialize_plant is a
\* topological order of the 28 core arcs without the tear arcs o03, s12 and
\* s13: the source unit of every other core arc is initialized before the
\* destination unit, every core unit is initialized exactly once.
C1_TopologicalOrder ==
    /\ Cardinality(CoreArcs) = 28
    /\ TearArcs = {"o03", "s12", "s13"}
    /\ \A a \in CoreArcs \ TearArcs : \A j \in DOMAIN inited :
          inited[j] = DstUnit(a) => \E i \in 1..(j - 1) : inited[i] = SrcUnit(a)
    /\ \A i, j \in DOMAIN inited : inited[i] = inited[j] => i = j
    /\ solves # <<>> => CoreUnits \subseteq Range(inited)

\* the traversal of initialize_plant has initialized all 24 core units
C1_Witness ==
    /\ Len(inited) = 24
    /\ Range(inited) = CoreUnits
    /\ inited[1] = "preheat_split"
    /\ inited[24] = "mxa1"

\* C2: when a unit's initialize() is called, every inlet port of the unit is
\* the destination of an earlier propagate_state / copy_port_values call or
\* has all its variables fixed at values by set_guess / set_inputs.
C2_InletsPopulated ==
    Calling("initialize") => \A port \in Inlets(Stmt.a) : Fed(port) \/ Guessed(port)

\* mxa1.initialize() is called with mxa1.air fed by a03 and mxa1.recycle
\* fixed by set_inputs only
C2_Witness ==
    /\ Calling("initialize")
    /\ Stmt.a = "mxa1"
    /\ Fed(<<"mxa1", "air">>)
    /\ ~Fed(<<"mxa1", "recycle">>)
    /\ Guessed(<<"mxa1", "recycle">>)

\* C3: every propagate_state and copy_port_values call made so far had the
\* unit of its source port initialized before the call.
C3_SourceInitializedFirst ==
    /\ \A i \in DOMAIN propagated : SrcUnit(propagated[i]) \in Range(inited)
    /\ \A i \in DOMAIN copies : copies[i].source[1] \in Range(inited)

\* both copies of initialize_bop and the propagation of a06 (source
\* initialized in initialize_plant) have been made
C3_Witness ==
    /\ Len(copies) = 2
    /\ copies[2].source = <<"flash", "vap_outlet">>
    /\ "a06" \in Range(propagated)

\* C4 as stated: no propagate_state call is made on an arc whose destination
\* is a tear port (o03, s12, s13).
C4_TearArcNeverPropagated ==
    \A i \in DOMAIN propagated : propagated[i] \notin TearArcs

\* C4 as the code has it: propagate_state is called on each tear arc, once
\* (s12 after mxf1, o03 after air_preheater_2, s13 after mxa1), and at each
\* such call every variable of the tear destination is still fixed.
C4_TearPropagatedOntoFixedPort ==
    /\ (Calling("propagate_state") /\ Stmt.a \in TearArcs) =>
          PortVars(ArcTable[Stmt.a].dst) \subseteq fixed
    /\ \A i, j \in DOMAIN propagated :
          (propagated[i] \in TearArcs /\ propagated[i] = propagated[j]) => i = j
    /\ solves # <<>> => TearArcs \subseteq Range(propagated)

\* s12 has just been propagated onto the SOEC fuel inlet, whose variables
\* are all fixed, the H2O fraction at the guessed 0.90
C4_Witness ==
    /\ propagated # <<>>
    /\ propagated[Len(propagated)] = "s12"
    /\ PortVars(<<"soec", "inlet_fc_mult">>) \subseteq fixed
    /\ val[<<"soec", "inlet_fc_mult", "H2O">>] = 900000

\* the guesses of the tear destinations, as variable/value pairs
TearGuess ==
    PortState(<<"preheat_split", "inlet">>, 6000000, 70000, 104000,
              [O2 |-> 207400, H2O |-> 9900, CO2 |-> 300, N2 |-> 773200,
               Ar |-> 9200])
    \cup {fc("temperature", 107315), fc("pressure", 100000),
          fc("H2O", 900000), fc("H2", 100000),
          ac("temperature", 107315), ac("pressure", 100000),
          ac("O2", 207400), ac("H2O", 9900), ac("N2", 773200),
          ac("Ar", 9200), ac("CO2", 300)}

\* index of the statement that unfixes w (past the end when none does)
ReleaseAt(w) ==
    LET I == {i \in DOMAIN get_model_body :
                 get_model_body[i].op = "unfix" /\ w \in get_model_body[i].a}
    IN  IF I = {} THEN Len(get_model_body) + 1
        ELSE CHOOSE i \in I : \A j \in I : i <= j

\* set_guess has run and the unfix of w has not
Held(w) == Executed("set_guess") /\ pc <= ReleaseAt(w)

\* C5: from set_guess until its unfix, every guessed variable of a tear
\* destination stays fixed at the guessed value (preheat_split.inlet:
\* F=6000, T=700, P=1.04e5, comp_guess; SOEC channel inlets: T=1073.15,
\* P=1e5 and the guessed fractions), across set_inputs, every initialize()
\* and every propagate_state.
C5_GuessKept ==
    \A e \in TearGuess : Held(e.v) => e.v \in fixed /\ val[e.v] = e.x

\* o03 has been propagated onto preheat_split.inlet from a source holding
\* another flow, and the inlet is not yet released
C5_Witness ==
    /\ "o03" \in Range(propagated)
    /\ Held(<<"preheat_split", "inlet", "flow_mol">>)
    /\ val[<<"air_preheater_1", "shell_outlet", "flow_mol">>] = 4000000
    /\ val[<<"preheat_split", "inlet", "flow_mol">>] = 6000000

\* C6: set_guess and set_inputs have run before any statement of
\* initialize_plant, and at the first initialize() call every variable of
\* every tear destination (flow, temperature, pressure, each component
\* fraction) is fixed at a value.
C6_GuessBeforeTraversal ==
    /\ (pc <= Len(get_model_body) /\ Stmt.fn = "initialize_plant") =>
          Executed("set_guess") /\ Executed("set_inputs")
    /\ (Calling("initialize") /\ inited = <<>>) =>
          \A port \in TearPorts : Guessed(port)

\* the first initialize() is about to be called, in initialize_plant
C6_Witness ==
    /\ Calling("initialize")
    /\ inited = <<>>
    /\ Stmt.fn = "initialize_plant"
    /\ Stmt.a = "preheat_split"
    /\ Guessed(<<"soec", "inlet_ac_mult">>)

RECURSIVE SumFrac(_, _)
\* sum of the fractions of the components comps held at the port
SumFrac(port, comps) ==
    IF comps = {} THEN 0
    ELSE LET c == CHOOSE c \in comps : TRUE
         IN  val[<<port[1], port[2], c>>] + SumFrac(port, comps \ {c})

\* the ports set_guess and set_inputs give a composition
InputPorts ==
    TearPorts \cup
    {<<"air_compressor_s1", "inlet">>, <<"ng_preheater", "tube_inlet">>,
     <<"air_blower", "inlet">>, <<"mxa1", "recycle">>}

\* the composition of the port is an operator input in force
CompositionFixed(port) ==
    \A c \in PkgComps(PortInfo(port).pkg) : <<port[1], port[2], c>> \in fixed

\* C7: every composition fixed by set_guess / set_inputs sums to 1 within
\* 1e-6 and has no negative fraction.
C7_InputCompositionsSumToOne ==
    \A port \in InputPorts : CompositionFixed(port) =>
        /\ SumFrac(port, PkgComps(PortInfo(port).pkg)) \in 999999..1000001
        /\ \A c \in PkgComps(PortInfo(port).pkg) :
              val[<<port[1], port[2], c>>] >= 0

\* C8: once an initialize() has raised, nothing more is executed: no later
\* propagate_state, copy, initialize() or solve, and no second attempt.
C8_FailureHalts ==
    [][raised # <<>> =>
          UNCHANGED <<pc, inited, propagated, copies, solves, raised, val>>]_vars

\* soec.initialize() raised after twelve units had been initialized
C8_Witness ==
    /\ Len(raised) = 1
    /\ raised[1].unit = "soec"
    /\ status = "failed"
    /\ Len(inited) = 12

\* C9: the units of add_h2_compressor and add_hrsg_and_cpu exist, and
\* initialize_bop runs, only if the solve of initialize_plant reported
\* convergence.
C9_ExtendOnlyIfConverged ==
    (\/ units \cap UnitsOf("add_h2_compressor") # {}
     \/ units \cap UnitsOf("add_hrsg_and_cpu") # {}
     \/ (pc <= Len(get_model_body) /\ Stmt.fn = "initialize_bop"))
    => (solves # <<>> /\ solves[1].status = "Converged")

\* C10: when s12_expanded / s13_expanded is re-activated, a solve has been
\* made while it was inactive.
C10_SolvedWhileDecoupled ==
    Calling("activate") => \E i \in DOMAIN solves : Stmt.a \in solves[i].inactive

\* C11: in the record of the solve of initialize_plant no variable that
\* set_guess fixed as a tear guess is still fixed.
C11_GuessesRelaxedAtPlantSolve ==
    \A i \in DOMAIN solves : solves[i].fn = "initialize_plant" =>
        \A e \in TearGuess : e.v \notin solves[i].fixed

\* the release of the preheat_split.inlet guess is the next statement
ReleasingPreheatSplit ==
    Calling("unfix") /\ Stmt.a = PortVars(<<"preheat_split", "inlet">>)

\* the preheat_split.inlet guess has been released
PreheatSplitReleased ==
    pc > ReleaseAt(<<"preheat_split", "inlet", "flow_mol">>)

\* C12: preheat_split.inlet is unfixed only once all 24 core units are
\* initialized and all core arcs propagated, and before the solve of
\* initialize_plant; after the release no statement of initialize_plant is
\* an initialize().
C12_ReleaseAfterTraversal ==
    /\ ReleasingPreheatSplit =>
          /\ Stmt.fn = "initialize_plant"
          /\ CoreUnits \subseteq Range(inited)
          /\ CoreArcs \subseteq Range(propagated)
          /\ solves = <<>>
    /\ solves # <<>> => PreheatSplitReleased
    /\ (PreheatSplitReleased /\ pc <= Len(get_model_body)
        /\ Stmt.fn = "initialize_plant") => Stmt.op # "initialize"

\* the guess has just been released: all core units initialized, no solve yet
C12_Witness ==
    /\ PreheatSplitReleased
    /\ <<"preheat_split", "inlet", "flow_mol">> \notin fixed
    /\ Len(inited) = 24
    /\ solves = <<>>

\* C13: at every solve every expanded arc block is active; s12_expanded and
\* s13_expanded, deactivated in initialize_plant, are active again at its
\* solve and from then on.
C13_ArcsActiveAtSolve ==
    /\ Calling("solve") => expanded \ active = {}
    /\ \A i \in DOMAIN solves : solves[i].inactive = {}
    /\ solves # <<>> => {"s12", "s13"} \subseteq active

\* the solve of initialize_plant has been made after s12 and s13 were
\* deactivated and re-activated
C13_Witness ==
    /\ Len(solves) = 1
    /\ Executed("deactivate")
    /\ Executed("activate")
    /\ {"s12", "s13"} \subseteq expanded
    /\ solves[1].inactive = {}

\* C14: no unit is initialized twice; the 24 core units are initialized in
\* initialize_plant (before its solve) and only there, the 15 units added
\* afterwards in initialize_bop and only there; a run that reaches the solve
\* of a phase has initialized every unit of the phase.
C14_EachUnitOnce ==
    /\ Cardinality(CoreUnits) = 24
    /\ Cardinality(AllUnits \ CoreUnits) = 15
    /\ \A i, j \in DOMAIN inited : inited[i] = inited[j] => i = j
    /\ Calling("initialize") =>
          /\ Stmt.a \in CoreUnits <=> Stmt.fn = "initialize_plant"
          /\ Stmt.a \notin CoreUnits <=> Stmt.fn = "initialize_bop"
    /\ solves = <<>> => Range(inited) \subseteq CoreUnits
    /\ solves # <<>> => CoreUnits \subseteq Range(inited)
    /\ Len(solves) = 2 => Range(inited) = AllUnits

\* a failure-free run has returned with all 39 units initialized
C14_Witness ==
    /\ status = "done"
    /\ raised = <<>>
    /\ Len(inited) = 39
    /\ inited[25] = "hcmp_ic01"
    /\ inited[39] = "CPU"

\* C15: a propagate_state call on a regular arc finds no destination
\* variable fixed and leaves every destination variable (flow, temperature,
\* pressure, each mole fraction) at the value the source port holds;
\* propagating once more from the unchanged source changes nothing.
C15_PropagateCopiesSource ==
    [][\A a \in AllArcs \ TearArcs :
          propagated' = Append(propagated, a) =>
             /\ PortVars(ArcTable[a].dst) \cap fixed = {}
             /\ \A w \in PortVars(ArcTable[a].dst) :
                   /\ val'[w] = ReadPort(val, ArcTable[a].src, w[3])
                   /\ val'[w] # Unset
             /\ propagate_state(val', fixed, ArcTable[a].src,
                                ArcTable[a].dst) = val']_vars

\* s10 has just been propagated from the h_side_adapt port: mxf1.water holds
\* pure steam at the split's temperature, pressure and flow
C15_Witness ==
    /\ propagated # <<>>
    /\ propagated[Len(propagated)] = "s10"
    /\ val[<<"mxf1", "water", "H2O">>] = 1000000
    /\ val[<<"mxf1", "water", "H2">>] = 0
    /\ val[<<"mxf1", "water", "temperature">>] = 107315
    /\ val[<<"mxf1", "water", "flow_mol">>] =
          val[<<"main_steam_split", "h_side", "flow_mol">>]

\* C16: once hcmp_ic01.inlet has been written at the start of
\* initialize_bop, it holds the state of bhx1.shell_outlet_drop_water, the
\* source port of arc h03 (flow = shell-outlet flow times its H2 fraction).
C16_InletFromDropWater ==
    copies # <<>> =>
        \A f \in Fields(<<"hcmp_ic01", "inlet">>) :
            val[<<"hcmp_ic01", "inlet", f>>] =
                ReadPort(val, <<"bhx1", "shell_outlet_drop_water">>, f)

\* C20: no arc is propagated twice; the 28 core arcs are propagated in
\* initialize_plant and only there, the arcs h04-h10, a06, a07, fg02-fg05
\* in initialize_bop and only there; h03 is the one arc never propagated.
C20_EachArcOnce ==
    /\ \A i, j \in DOMAIN propagated : propagated[i] = propagated[j] => i = j
    /\ Calling("propagate_state") =>
          /\ Stmt.a \in CoreArcs <=> Stmt.fn = "initialize_plant"
          /\ Stmt.a \notin CoreArcs <=> Stmt.fn = "initialize_bop"
    /\ solves = <<>> => Range(propagated) \subseteq CoreArcs
    /\ solves # <<>> => CoreArcs \subseteq Range(propagated)
    /\ Len(solves) = 2 => Range(propagated) = AllArcs \ {"h03"}
    /\ AllArcs \ CoreArcs =
          {"h03", "h04", "h05", "h06", "h07", "h08", "h09", "h10",
           "a06", "a07", "fg02", "fg03", "fg04", "fg05"}

\* both solves are made: 41 arcs propagated, h03 not among them
C20_Witness ==
    /\ Len(solves) = 2
    /\ Len(propagated) = 41
    /\ "h03" \notin Range(propagated)
    /\ "h03" \in arcs

\* C19: a get_model call on a model on which a call has already run is
\* turned away on entry: no statement after add_flowsheet is reached in a
\* repeated call.
C19_ReentryRejected == runs > 1 => pc = 1

\* port is an outlet of its unit (the ports declared over an outlet's state
\* included)
IsOutlet(port) ==
    \/ port \in DerivedPorts
    \/ port \in AllPorts /\ PortInfo(port).dir = "out"

IsInlet(port) == port \in AllPorts /\ PortInfo(port).dir = "in"

\* C21: every declared Arc runs from an outlet port of a unit that exists to
\* an inlet port of a different unit that exists; no two declared Arcs share
\* a source port or a destination port.
C21_ArcsWellFormed ==
    \A a \in arcs :
        /\ IsOutlet(ArcTable[a].src)
        /\ IsInlet(ArcTable[a].dst)
        /\ SrcUnit(a) # DstUnit(a)
        /\ {SrcUnit(a), DstUnit(a)} \subseteq units
        /\ \A b \in arcs \ {a} :
              /\ ArcTable[b].src # ArcTable[a].src
              /\ ArcTable[b].dst # ArcTable[a].dst

\* the last builder, add_hrsg_and_cpu, has run: all 42 arcs are declared,
\* s10 and h03 from the ports declared over an outlet's state
C21_Witness ==
    /\ arcs = AllArcs
    /\ Cardinality(arcs) = 42
    /\ units = AllUnits
    /\ ArcTable["s10"].src \in DerivedPorts
    /\ ArcTable["h03"].src \in DerivedPorts

\* the units of U and the units one arc of E downstream of them
Succ(U, E) == U \cup {DstUnit(a) : a \in {e \in E : SrcUnit(e) \in U}}

RECURSIVE Reach(_, _)
\* the units reachable from the units U along arcs of E
Reach(U, E) == IF Succ(U, E) = U THEN U ELSE Reach(Succ(U, E), E)

\* arc t closes a directed cycle of units when added to the arcs E
ClosesCycle(t, E) == SrcUnit(t) \in Reach({DstUnit(t)}, E \ {t})

\* the declared core arcs other than the three tear arcs
CoreWithoutTears == (arcs \cap CoreArcs) \ TearArcs

\* C22 as stated: once the core arcs are declared, each of o03, s12, s13
\* added alone to the core arcs without the three closes a directed cycle.
C22_EachTearClosesCycle ==
    CoreArcs \subseteq arcs =>
        \A t \in TearArcs : ClosesCycle(t, CoreWithoutTears)

\* C22 as the code has it: s12 and s13 each close a cycle when added alone;
\* o03 added alone closes none (preheat_split reaches air_preheater_1 only
\* through s13), and closes one once s13 is present as well.
C22_TearsAndCycles ==
    CoreArcs \subseteq arcs =>
        /\ TearArcs = {"o03", "s12", "s13"}
        /\ ClosesCycle("s12", CoreWithoutTears)
        /\ ClosesCycle("s13", CoreWithoutTears)
        /\ ~ClosesCycle("o03", CoreWithoutTears)
        /\ ~ClosesCycle("o03", CoreWithoutTears \cup {"s12"})
        /\ ClosesCycle("o03", CoreWithoutTears \cup {"s13"})
        /\ \A a \in CoreWithoutTears : ~ClosesCycle(a, CoreWithoutTears)

\* all core arcs are declared; from preheat_split the units downstream
\* without the tears end at mxa1 and do not include air_preheater_1
C22_Witness ==
    /\ CoreArcs \subseteq arcs
    /\ "mxa1" \in Reach({"preheat_split"}, CoreWithoutTears)
    /\ "air_preheater_1" \notin Reach({"preheat_split"}, CoreWithoutTears)
    /\ "air_preheater_1" \in Reach({"soec"}, CoreWithoutTears)

\* the fixed variables that belong to a unit of the core network
CoreFixed(fx) == {w \in fx : w[1] \in CoreUnits}

\* C23: a step of add_h2_compressor or add_hrsg_and_cpu changes the fixed
\* flag of no variable of a core unit and the value of no stream variable
\* of a core unit.
C23_ExtensionLeavesCoreAlone ==
    [][(At("build") /\ Stmt.a \in BopBuilders) =>
          /\ CoreFixed(fixed') = CoreFixed(fixed)
          /\ \A w \in AllVars : w[1] \in CoreUnits => val'[w] = val[w]]_vars

\* the variables a _set_port call names: flow, temperature, pressure and the
\* fractions listed in comp
Named(port, comp) ==
    {<<port[1], port[2], f>> :
        f \in {"flow_mol", "temperature", "pressure"} \cup DOMAIN comp}

\* r is the store st with the named variables at the given values, fixed
\* when fix, and nothing else changed
SetPortPost(st, r, port, F, T, P, comp, fix) ==
    /\ DOMAIN r.val = DOMAIN st.val
    /\ r.val[<<port[1], port[2], "flow_mol">>] = F
    /\ r.val[<<port[1], port[2], "temperature">>] = T
    /\ r.val[<<port[1], port[2], "pressure">>] = P
    /\ \A k \in DOMAIN comp : r.val[<<port[1], port[2], k>>] = comp[k]
    /\ \A w \in DOMAIN st.val \ Named(port, comp) : r.val[w] = st.val[w]
    /\ r.fixed = IF fix THEN st.fixed \cup Named(port, comp) ELSE st.fixed

\* C24: from any store reached by _set_port calls, a call with fix=True
\* leaves the port's flow, temperature, pressure and every listed fraction
\* fixed at the given values and touches nothing else; with fix=False it
\* assigns the same values and changes no fixed flag.
C24_SetPortFrame ==
    \A port \in SetPortPorts, F \in SetPortFlows, fix \in BOOLEAN :
        \A comp \in SetPortComps(port) :
            SetPortPost([fixed |-> fixed, val |-> val],
                        _set_port([fixed |-> fixed, val |-> val],
                                  port, F, 70000, 104000, comp, fix),
                        port, F, 70000, 104000, comp, fix)

\* a fix=False call has overwritten the flow of a port fixed earlier (the
\* flag stays), and another has filled a port that stays free, with a
\* partial composition
C24_Witness ==
    /\ PortVars(<<"ng_preheater", "tube_inlet">>) \subseteq fixed
    /\ val[<<"ng_preheater", "tube_inlet", "CH4">>] = 1000000
    /\ val[<<"ng_preheater", "tube_inlet", "C2H6">>] = 32000
    /\ PortVars(<<"preheat_split", "inlet">>) \cap fixed = {}
    /\ val[<<"preheat_split", "inlet", "flow_mol">>] = 380000
    /\ val[<<"preheat_split", "inlet", "O2">>] = 500000
    /\ val[<<"preheat_split", "inlet", "Ar">>] = Unset

\* The components a function of the flowsheet file refers to that another
\* function creates: units, arcs, property packages, flowsheet-level
\* variables and constraints, the tag group.
Refs(fn) ==
    CASE fn = "add_asu" -> {"air_prop"}
      [] fn = "add_preheater" -> {"air_prop", "fg_prop", "ASU"}
      [] fn = "add_soec_air_side_units" -> {"air_prop"}
      [] fn = "add_combustor" ->
           {"air_prop", "fg_prop", "fg_combust", "ng_preheater",
            "oxygen_preheater", "air_preheater_2"}
      [] fn = "add_aux_boiler_steam" -> {"h2_prop", "water_prop"}
      [] fn = "add_soec_unit" -> {"air_prop", "h2_prop"}
      [] fn = "add_more_hx_connections" ->
           {"spltf1", "splta1", "bhx1", "air_preheater_1", "preheat_split"}
      [] fn = "add_soec_inlet_mix" ->
           {"air_prop", "h2_prop", "main_steam_split", "soec", "spltf1",
            "air_preheater_2"}
      [] fn = "add_design_constraints" ->
           {"soec", "cmb", "bhx2", "ng_preheater", "air_compressor_s1"}
      [] fn = "set_guess" -> {"preheat_split", "soec"}
      [] fn = "set_inputs" ->
           {"cmb_temperature", "soec_heat_duty", "soec_steam_temperature",
            "air_compressor_s1", "ng_preheater", "air_blower", "mxa1",
            "aux_boiler_feed_pump", "soec"}
      [] fn = "additional_scaling" ->
           {"ng_preheater", "oxygen_preheater", "aux_boiler_feed_pump", "bhx1",
            "air_preheater_1", "air_preheater_2", "mxa1", "mxf1", "cmb",
            "cmb_mix", "post_oxycombustor_translator",
            "pre_oxycombustor_translator", "soec"}
      [] fn = "add_h2_compressor" -> {"h2_compress_prop", "bhx1"}
      [] fn = "add_hrsg_and_cpu" ->
           {"CO2_H2O_VLE", "air_prop", "pre_oxycombustor_translator",
            "ng_preheater", "oxygen_preheater", "air_preheater_2"}
      [] fn = "additional_scaling_2" ->
           {"CPU", "CPU_translator", "condenser", "flash", "fluegas_HRSG",
            "soec_air_HRSG_1", "soec_air_HRSG_2", "hcmp03"}
      [] fn = "add_result_constraints" ->
           {"soec", "bhx1", "hcmp01", "hcmp02", "hcmp03", "hcmp04",
            "hcmp_ic01", "hcmp_ic02", "hcmp_ic03", "hcmp_ic04", "CPU",
            "condenser", "fluegas_HRSG", "soec_air_HRSG_1", "soec_air_HRSG_2",
            "ASU", "air_compressor_s1", "air_compressor_s2", "intercooler_s1",
            "intercooler_s2", "ng_preheater", "air_blower",
            "aux_boiler_feed_pump"}
      [] fn = "tag_inputs_opt_vars" ->
           {"soec", "soec_heat_duty", "cmb", "ng_preheater",
            "oxygen_preheater", "preheat_split", "aux_boiler_feed_pump",
            "bhx1", "air_preheater_1", "air_preheater_2"}
      [] fn = "tag_for_pfd_and_tables" ->
           {"soec_air_HRSG_1", "soec_air_HRSG_2", "aux_boiler_feed_pump",
            "hcmp04", "soec"}
      [] fn = "display_input_tags" -> {"tag_input"}
      [] OTHER -> {}

\* the function that creates a component that is neither a unit nor an arc
FsCreator(n) ==
    CASE n \in {"air_prop", "fg_prop", "fg_combust", "h2_prop",
                "h2_compress_prop", "water_prop", "CO2_H2O_VLE"} ->
           "add_properties"
      [] n \in {"cmb_temperature", "soec_heat_duty",
                "soec_steam_temperature"} -> "add_design_constraints"
      [] n \in {"CPU_inlet_F", "CPU_inlet_P"} -> "add_hrsg_and_cpu"
      [] n \in Range(variables) \cup Range(constraints) ->
           "add_result_constraints"
      [] n = "tag_input" -> "tag_inputs_opt_vars"

\* function f has been called and has returned
Ran(f) ==
    \E i \in 1..(pc - 1) :
        get_model_body[i].op \in {"build", "call"} /\ get_model_body[i].a = f

\* component n is on the model
Exists(n) ==
    IF n \in AllUnits THEN n \in units
    ELSE IF n \in AllArcs THEN n \in arcs
    ELSE Ran(FsCreator(n))

\* the components statement s refers to
StmtRefs(s) ==
    CASE s.op = "initialize" -> {s.a}
      [] s.op = "propagate_state" -> {s.a, SrcUnit(s.a), DstUnit(s.a)}
      [] s.op = "copy_port_values" -> {s.a.source[1], s.a.destination[1]}
      [] s.op = "unfix" -> {w[1] : w \in s.a}
      [] s.op = "calculate_variable_from_constraint" ->
           {s.a.var[1], s.a.from[1],
            IF s.a.var[3] = "flow_mol" THEN "CPU_inlet_F" ELSE "CPU_inlet_P"}
      [] s.op = "calculate_result" -> {s.a.var, s.a.con}
      [] s.op \in {"build", "scaling", "call"} -> Refs(s.a)
      [] s.op \in {"set_guess", "set_inputs"} -> Refs(s.op)
      [] OTHER -> {}

\* C25: every component the statement about to run refers to is on the
\* model, created by an earlier statement of the run; an arc block it
\* (de)activates has been created by expand_arcs; a solve finds the solver
\* object of get_solver.
C25_RefersToEarlier ==
    (status = "running" /\ pc <= Len(get_model_body)) =>
        /\ \A n \in StmtRefs(Stmt) : Exists(n)
        /\ Stmt.op \in {"deactivate", "activate"} => Stmt.a \in expanded
        /\ Stmt.op = "solve" => solver = get_solver
        /\ Stmt.op = "build" /\ Stmt.a # "add_flowsheet" =>
              Ran("add_flowsheet")

\* set_inputs is about to run: cmb_temperature of add_design_constraints
\* and mxa1 of add_soec_inlet_mix are on the model
C25_Witness ==
    /\ Calling("set_inputs")
    /\ status = "running"
    /\ "cmb_temperature" \in StmtRefs(Stmt)
    /\ Exists("cmb_temperature")
    /\ "mxa1" \in units
    /\ {"s12", "s13"} \subseteq expanded

\* the variables the unfix statements executed so far have named
Unfixed ==
    UNION {get_model_body[i].a :
              i \in {j \in 1..(pc - 1) : get_model_body[j].op = "unfix"}}

\* C26: when an unfix of initialize_plant is applied, every variable it names
\* is fixed (by a builder, set_guess or set_inputs, the only steps that fix)
\* and none has been named by an earlier unfix.
C26_UnfixTargetsFixed ==
    Calling("unfix") =>
        /\ Stmt.fn = "initialize_plant"
        /\ Stmt.a # {}
        /\ Stmt.a \subseteq fixed
        /\ Stmt.a \cap Unfixed = {}

\* the unfix of soec.E_cell, fixed in add_soec_unit, is about to be applied
\* after the preheat_split.inlet guess of set_guess has been released
C26_Witness ==
    /\ Calling("unfix")
    /\ Stmt.a = {soec_var("unit", "E_cell")}
    /\ soec_var("unit", "E_cell") \in fixed
    /\ PortVars(<<"preheat_split", "inlet">>) \subseteq Unfixed
    /\ PortVars(<<"preheat_split", "inlet">>) \cap fixed = {}

\* the result variables initialize_results has computed so far
Computed ==
    {get_model_body[i].a.var :
        i \in {j \in 1..(pc - 1) : get_model_body[j].op = "calculate_result"}}

\* C27: the two lists of initialize_results have 22 entries each; every
\* result variable is computed from the constraint that has it on the
\* left-hand side, once, and after every other result variable the
\* constraint reads; a run that returns has computed all 22.
C27_ResultsInDependencyOrder ==
    /\ Len(variables) = 22
    /\ Len(constraints) = 22
    /\ Range(constraints) = DOMAIN add_result_constraints
    /\ Calling("calculate_result") =>
          /\ add_result_constraints[Stmt.a.con].defines = Stmt.a.var
          /\ add_result_constraints[Stmt.a.con].uses \subseteq Computed
          /\ Stmt.a.var \notin Computed
    /\ status = "done" => Computed = Range(variables)

\* net_power is about to be computed from net_power_constraint, the four
\* result variables it reads already computed
C27_Witness ==
    /\ Calling("calculate_result")
    /\ Stmt.a = [var |-> "net_power", con |-> "net_power_constraint"]
    /\ Cardinality(Computed) = 18
    /\ {"steam_cycle_power", "soec_power", "auxiliary_load",
         "transformer_losses"} \subseteq Computed

\* the loads auxiliary_load_constraint adds up
Loads == {auxiliary_load[i].load : i \in DOMAIN auxiliary_load}

\* the high-voltage loads: the two air compressors, the four hydrogen
\* compressors and the CPU
HVLoads ==
    {"air_compressor_s1", "air_compressor_s2", "hcmp01", "hcmp02", "hcmp03",
     "hcmp04", "CPU"}

\* a work each load may draw: none, or 9120 (divisible by 95 and by 96)
WorkLevels == {0, 9120}

\* the terms of a load sum whose load is in the set L
Only(terms, L) == SelectSeq(terms, LAMBDA x : x.load \in L)

\* C28: when transformer_losses is computed, HV_aux holds each
\* high-voltage load of auxiliary_load exactly once, so that for any works
\* of the loads MV_aux is the sum of the other terms of auxiliary_load.
C28_HVLoadsCountedOnce ==
    (Calling("calculate_result")
     /\ Stmt.a.con = "transformer_losses_constraint") =>
        /\ \A l \in HVLoads :
              /\ Len(Only(HV_aux, {l})) = 1
              /\ Only(HV_aux, {l}) = Only(auxiliary_load, {l})
        /\ \A W \in [Loads -> WorkLevels] :
              MV_aux(W) = SumTerms(Only(auxiliary_load, Loads \ HVLoads), W)

\* the options a solve call passes with a value other than the configured
Overridden(opts) == {k \in DOMAIN opts : k \notin DOMAIN solver \/ opts[k] # solver[k]}

\* C29 as stated: no solver.solve call passes an option with a value
\* different from the one get_solver configured.
C29_NoOptionOverridden ==
    Calling("solve") => Overridden(Stmt.a) = {}

\* C29 as the code has it: both solves find the options of get_solver
\* installed; the solve of initialize_plant passes max_iter, tol, bound_push
\* and linear_solver and overrides exactly linear_solver (ma27 for the
\* configured ma57); the solve of initialize_bop passes no option.
C29_PlantSolveOverridesLinearSolver ==
    Calling("solve") =>
        /\ solver = get_solver
        /\ solver.linear_solver = "ma57"
        /\ Stmt.fn = "initialize_plant" =>
              /\ DOMAIN Stmt.a =
                    {"max_iter", "tol", "bound_push", "linear_solver"}
              /\ Overridden(Stmt.a) = {"linear_solver"}
              /\ Stmt.a.linear_solver = "ma27"
        /\ Stmt.fn = "initialize_bop" => Stmt.a = NoOptions
        /\ Stmt.fn \in {"initialize_plant", "initialize_bop"}

\* the solve of initialize_bop is about to be made, the solve of
\* initialize_plant (line 1479) done
C29_Witness ==
    /\ Calling("solve")
    /\ Stmt.fn = "initialize_bop"
    /\ Len(solves) = 1
    /\ solves[1].line = 1479
    /\ solves[1].fn = "initialize_plant"

====
